---- MODULE Spec2Model ----
(***************************************************************************)
(* Research pipeline of soheilhosseini/ebcom.                              *)
(*                                                                         *)
(* Two orchestrators are modelled side by side:                            *)
(*   "service" : ResearchService  (src/features/research/services)         *)
(*   "agent"   : ResearchAgent    (backend/research_agent.py, legacy)      *)
(* One request runs from research() to its return or its exception.  The   *)
(* collaborators (search, extract, summarize, generate) are the inputs:    *)
(* each awaited call is one action whose outcome is drawn from the         *)
(* outcomes that collaborator can produce.                                 *)
(*                                                                         *)
(* Spec       one request, research() called directly                      *)
(* TwinSpec   the request run twice against the same collaborator answers  *)
(* StreamSpec research_stream (backend/main.py) around ResearchAgent       *)
(* StreamFairSpec  the same with the generator scheduled fairly            *)
(* TruncSpec  the extractor's truncation called on its own                 *)
(* FnSpec     request validation, language detection, Markdown formatting, *)
(*            word-boundary truncation and report generation, each called  *)
(*            on its own                                                   *)
(***************************************************************************)
EXTENDS Integers, Sequences, FiniteSets, TLC

\* ---------------------------------------------------------------- bounds
\* largest num_sources explored (the program allows up to MaxSources)
MaxRequested == 4
\* largest number of hits the search provider comes back with
MaxHits == 3
\* content budget of the pipeline: stands for max_content_chars /
\* DEFAULT_MAX_CHARS (8000), scaled to the page sizes explored
MaxContentChars == 12

Min(a, b) == IF a <= b THEN a ELSE b

\* ------------------------------------------------------ program constants
MinSources == 3
MaxSources == 10

Impls == {"service", "agent"}
Languages == {"en", "fa"}
OutputFormats == {"json", "markdown"}
UrlNames == <<"u1", "u2", "u3", "u4", "u5">>
\* the rankings a search can produce: the urls ascending or descending, so
\* that the url of a hit is not a function of its index
UrlOrders ==
    LET n == Min(MaxHits, Len(UrlNames))
    IN {[k \in 1..n |-> UrlNames[k]], [k \in 1..n |-> UrlNames[n + 1 - k]]}
Topic == "Python programming"

SearchFailedMessage == "Unable to search. Please try again."
NoSourcesFoundMessage == "Could not retrieve any sources. Please try a different topic."
AIServiceMessage == "AI service unavailable. Please try again later."

VARIABLES
    impl,         \* which orchestrator runs the request
    callback,     \* TRUE when a progress_callback was passed, FALSE for None
    num_sources,  \* requested number of sources
    output_format,\* format passed to the agent; the service takes none
    language,     \* <<>> before detection, <<code>> after
    pc,           \* position of research(): the await it is suspended at
    results,      \* search hits returned (sequence of SearchResult)
    i,            \* enumerate(results, 1) index of the hit in progress
    extracted,    \* <<>> or <<ExtractedContent>> of the hit in progress
    summaries,    \* list of SourceSummary built so far
    source_num,   \* counter of successful sources
    report,       \* <<>> or <<FinalReport>>
    events,       \* ProgressEvents handed to the callback, in order
    calls,        \* collaborator calls, returns and raises, in order
    raised,       \* <<>> or <<exception>> research() terminated with
    result,       \* <<>> or <<value>> research() returned
    cb_raised,    \* TRUE once an awaited callback has raised
    twin,         \* <<>>, or <<outcome>> of the run this one repeats
    cpc,          \* position of research_stream ("off": research() called directly)
    taken,        \* number of events research_stream has got from its queue
    yielded,      \* SSE events research_stream has yielded, in order
    tr_content,   \* text handed to the extractor's truncation
    tr_max_chars, \* max_chars handed to the extractor's truncation
    tr_result,    \* <<>> or <<text>> the truncation returned
    tr_parts,     \* the paragraphs tr_content was written from, without padding
    fn_name,      \* the function called on its own, "none" when there is none
    fn_args,      \* its arguments
    fn_ret        \* <<>> before the call, then <<what the call returned or raised>>

\* the arguments of research(): fixed for the whole request
request == <<impl, callback, num_sources, output_format>>

vars == <<impl, callback, num_sources, output_format, language, pc, results, i, extracted,
          summaries, source_num, report, events, calls, raised, result, cb_raised, twin,
          cpc, taken, yielded, tr_content, tr_max_chars, tr_result, tr_parts,
          fn_name, fn_args, fn_ret>>

\* the call of the extractor's truncation on its own
truncation == <<tr_content, tr_max_chars, tr_result, tr_parts>>
purecall == <<fn_name, fn_args, fn_ret>>

\* the state of research_stream
consumer == <<cpc, taken, yielded>>

\* ----------------------------------------------------------------- helpers
Range(s) == {s[k] : k \in 1..Len(s)}

IsPrefix(s, t) == Len(s) <= Len(t) /\ \A k \in 1..Len(s) : s[k] = t[k]

\* ------------------------------------------------------------ domain model
SearchResult(u) == [url |-> u, title |-> "hit", snippet |-> "snippet"]

ExtractedContent(u, t, c) == [url |-> u, title |-> t, content |-> c]

SourceSummary(n, t, u, s) == [source_number |-> n, title |-> t, url |-> u, summary |-> s]

Citation(n, t, u) == [number |-> n, title |-> t, url |-> u]

ProgressEvent(step, current, total, count) ==
    [step |-> step, current |-> current, total |-> total, count |-> count]

Exception(type, message) == [type |-> type, message |-> message]

SearchFailedError ==
    IF impl = "service" THEN Exception("SearchFailedError", SearchFailedMessage)
    ELSE Exception("ResearchError", SearchFailedMessage)

NoSourcesFoundError ==
    IF impl = "service" THEN Exception("NoSourcesFoundError", NoSourcesFoundMessage)
    ELSE Exception("ResearchError", NoSourcesFoundMessage)

AIServiceError ==
    IF impl = "service" THEN Exception("AIServiceError", AIServiceMessage)
    ELSE Exception("ResearchError", AIServiceMessage)

\* exceptions a collaborator behind a Protocol port can raise into the service
CollaboratorErrors ==
    {Exception("AIServiceError", "AI service error"), Exception("Exception", "boom")}

ProviderErrors == {Exception("Exception", "boom")}

\* ResearchResult is a pydantic model: construction fails when a required
\* field is missing, extra keyword arguments are ignored.
ResearchResultFields == {"content", "format", "language"}

ResearchResult(kwargs) ==
    IF ResearchResultFields \subseteq DOMAIN kwargs
    THEN [ok |-> TRUE, value |-> [f \in ResearchResultFields |-> kwargs[f]]]
    ELSE [ok |-> FALSE, value |-> Exception("ValidationError", "Field required")]

\* ---------------------------------------------------------------- _emit
\* `if not callback: return`, else the callback is awaited with the event:
\* events holds every event a callback was awaited with
Emit(evs, ev) == IF callback THEN Append(evs, ev) ELSE evs

\* what a caller's callback can raise
CallbackError == Exception("RuntimeError", "callback failed")

\* an awaited callback returns (FALSE) or raises (TRUE); the second run of
\* a request is the one whose callback never raises, and the callback of
\* research_stream only puts the event on an unbounded queue
CallbackRaises == IF callback /\ twin = <<>> /\ cpc = "off" THEN BOOLEAN ELSE {FALSE}

\* faulty variant: no try/except around the awaited callback
SwallowedNever(fail) == ~ fail

\* `try: await callback(...) except Exception: pass`
Swallowed(fail) == TRUE

\* where research() is after an emission, and the exception it has ended
\* with: an exception that is not swallowed leaves research()
PcAfterEmit(fail, next) == IF Swallowed(fail) THEN next ELSE "done"

RaisedAfterEmit(fail, exc) == IF Swallowed(fail) THEN exc ELSE <<CallbackError>>

\* ---------------------------------------------------------- collaborators
\* what search(topic, n) can return: at most n hits, distinct urls
SearchOutcomes(n) ==
    {SubSeq(order, 1, k) : order \in UrlOrders, k \in 0..Min(n, MaxHits)}

\* pages the extractor can come back with: a short page with a title of
\* its own, a long page of three paragraphs whose title falls back to the url
ShortContent == <<"a", "b">>
LongContent == <<"a", "a", "\n", "\n", "b", "b", "b", "b", "b", "b", "b", "b",
                 "\n", "\n", "c", "c">>

ExtractOutcomes(u) ==
    {<<>>, <<ExtractedContent(u, "title", ShortContent)>>,
           <<ExtractedContent(u, u, LongContent)>>}

\* what summarize() can return: None, an empty completion, a paragraph
SummarizeOutcomes == {<<>>, <<"">>, <<"summary">>}

\* faulty variant: the citations are built from the first summary on only
\* when there is a single one, otherwise from the second on
BuildCitationsSkipFirst(sums) ==
    LET rest == IF Len(sums) > 1 THEN Tail(sums) ELSE sums
    IN [k \in 1..Len(rest) |-> Citation(rest[k].source_number, rest[k].title, rest[k].url)]

\* _build_citations: one Citation per summary, in list order
BuildCitations(sums) ==
    [k \in 1..Len(sums) |-> Citation(sums[k].source_number, sums[k].title, sums[k].url)]

FinalReport(sums, lang) ==
    [summary |-> "main", key_points |-> <<"point">>, comparison |-> "cmp",
     citations |-> BuildCitations(sums), language |-> lang]

\* ------------------------------------------------------------ python str
\* a str is a sequence of one-character strings
Max(a, b) == IF a >= b THEN a ELSE b

Whitespace == {" ", "\n", "\t"}

\* a slice bound as python normalises it for a str of length n
PyBound(k, n) == IF k < 0 THEN Max(n + k, 0) ELSE Min(k, n)

\* s[a:b]
PySlice(s, a, b) ==
    LET lo == PyBound(a, Len(s))
        hi == PyBound(b, Len(s))
    IN IF lo >= hi THEN <<>> ELSE SubSeq(s, lo + 1, hi)

\* faulty variant: the character at index `end` is searched too
PyRFindInclusive(s, ch, start, end) ==
    LET lo == PyBound(start, Len(s))
        hi == PyBound(end, Len(s))
        found == {k \in lo..Min(hi, Len(s) - 1) : s[k + 1] = ch}
    IN IF found = {} THEN -1 ELSE CHOOSE k \in found : \A j \in found : j <= k

\* s.rfind(ch, start, end) for a one-character ch: 0-based index or -1
PyRFind(s, ch, start, end) ==
    LET lo == PyBound(start, Len(s))
        hi == PyBound(end, Len(s))
        found == {k \in lo..(hi - 1) : s[k + 1] = ch}
    IN IF found = {} THEN -1 ELSE CHOOSE k \in found : \A j \in found : j <= k

\* faulty variant: surrounding whitespace is kept
PyStripNone(s) == s

\* s.strip()
PyStrip(s) ==
    LET keep == {k \in 1..Len(s) : s[k] \notin Whitespace}
    IN IF keep = {} THEN <<>>
       ELSE SubSeq(s, CHOOSE k \in keep : \A j \in keep : k <= j,
                      CHOOSE k \in keep : \A j \in keep : j <= k)

\* s.split("\n\n"): cut at each non-overlapping blank line, left to right
RECURSIVE PySplitParagraphs(_)
PySplitParagraphs(s) ==
    LET cuts == {k \in 1..(Len(s) - 1) : s[k] = "\n" /\ s[k + 1] = "\n"}
    IN IF cuts = {} THEN <<s>>
       ELSE LET k == CHOOSE c \in cuts : \A d \in cuts : c <= d
            IN <<SubSeq(s, 1, k - 1)>> \o PySplitParagraphs(SubSeq(s, k + 2, Len(s)))

\* sep.join(parts)
RECURSIVE PyJoin(_, _)
PyJoin(sep, parts) ==
    IF parts = <<>> THEN <<>>
    ELSE IF Len(parts) = 1 THEN parts[1]
    ELSE parts[1] \o sep \o PyJoin(sep, Tail(parts))

Separator == <<"\n", "\n">>
TruncationEllipsis == <<"[", ".", ".", ".", "]">>
DefaultSuffix == <<".", ".", ".">>

\* faulty variant: the first non-empty paragraph is left out
ParagraphsSkipFirst(content) ==
    LET raw == PySplitParagraphs(content)
        stripped == [k \in 1..Len(raw) |-> PyStrip(raw[k])]
        kept == SelectSeq(stripped, LAMBDA q : q # <<>>)
    IN IF Len(kept) > 1 THEN Tail(kept) ELSE kept

\* [p.strip() for p in content.split("\n\n") if p.strip()]
Paragraphs(content) ==
    LET raw == PySplitParagraphs(content)
        stripped == [k \in 1..Len(raw) |-> PyStrip(raw[k])]
    IN SelectSeq(stripped, LAMBDA q : q # <<>>)

\* faulty variant: a text of exactly max_chars characters is cut as well
WithinLimitStrict(n, limit) == n < limit

\* `len(content) <= max_chars`
WithinLimit(n, limit) == n <= limit

\* ------------------------------------------ truncation, refactored service
\* truncate_at_word_boundary(text, max_chars, suffix)
TruncateAtWordBoundary(text, max_chars, suffix) ==
    IF Len(text) <= max_chars THEN text
    ELSE LET suffix_len == Len(suffix)
             found == PyRFind(text, " ", 0, max_chars - suffix_len)
             truncate_at == IF found = -1 THEN max_chars - suffix_len ELSE found
         IN PySlice(text, 0, truncate_at) \o suffix

\* faulty variant: no break, a paragraph that does not fit is passed over
RECURSIVE FitMiddleSkipping(_, _, _, _)
FitMiddleSkipping(middle, budget, used, sep_len) ==
    IF middle = <<>> THEN <<>>
    ELSE LET para_len == Len(middle[1]) + sep_len
         IN IF used + para_len <= budget
            THEN <<middle[1]>> \o FitMiddleSkipping(Tail(middle), budget, used + para_len, sep_len)
            ELSE FitMiddleSkipping(Tail(middle), budget, used, sep_len)

\* the for loop over the middle paragraphs: the prefix of them that fits
RECURSIVE FitMiddle(_, _, _, _)
FitMiddle(middle, budget, used, sep_len) ==
    IF middle = <<>> THEN <<>>
    ELSE LET para_len == Len(middle[1]) + sep_len
         IN IF used + para_len <= budget
            THEN <<middle[1]>> \o FitMiddle(Tail(middle), budget, used + para_len, sep_len)
            ELSE <<>>

\* faulty variant: the marker is written whether or not a paragraph was left out
MarkerAlways(included, middle) == <<TruncationEllipsis>>

\* `if len(included) < len(middle): parts.append(ellipsis)`
Marker(included, middle) ==
    IF Len(included) < Len(middle) THEN <<TruncationEllipsis>> ELSE <<>>

\* TrafilaturaExtractor._truncate_preserving_structure
TruncatePreservingStructure(paragraphs, max_chars) ==
    LET first == paragraphs[1]
        last == paragraphs[Len(paragraphs)]
        min_required == Len(first) + Len(last) + Len(Separator)
    IN IF min_required > max_chars
       THEN TruncateAtWordBoundary(first, max_chars, DefaultSuffix)
       ELSE LET overhead == Len(Separator) * 2 + Len(TruncationEllipsis) + Len(Separator)
                middle_budget == max_chars - Len(first) - Len(last) - overhead
                middle == IF Len(paragraphs) > 2
                          THEN SubSeq(paragraphs, 2, Len(paragraphs) - 1) ELSE <<>>
                included == FitMiddle(middle, middle_budget, 0, Len(Separator))
                parts == <<first>> \o included
                         \o Marker(included, middle)
                         \o <<last>>
            IN PyJoin(Separator, parts)

\* TrafilaturaExtractor.truncate(content, max_chars); default is the value
\* taken when max_chars is None or 0
Truncate(content, max_chars, default) ==
    LET limit == IF max_chars = 0 THEN default ELSE max_chars
    IN IF content = <<>> \/ WithinLimit(Len(content), limit) THEN content
       ELSE LET paragraphs == Paragraphs(content)
            IN IF Len(paragraphs) <= 1
               THEN TruncateAtWordBoundary(content, limit, DefaultSuffix)
               ELSE TruncatePreservingStructure(paragraphs, limit)

\* --------------------------------------------- truncation, legacy backend
LegacySeparatorLen == 4
LegacyEllipsisLen == 7
LegacyMinConclusionRoom == 50
LegacyMinRemaining == 20

\* ContentExtractor._simple_truncate(text, max_chars)
SimpleTruncate(text, max_chars) ==
    IF Len(text) <= max_chars THEN text
    ELSE LET found == PyRFind(text, " ", 0, max_chars - 3)
             truncate_at == IF found = -1 THEN max_chars - 3 ELSE found
         IN PySlice(text, 0, truncate_at) \o DefaultSuffix

\* ContentExtractor.smart_truncate(content, max_chars)
SmartTruncate(content, max_chars) ==
    IF content = <<>> THEN <<>>
    ELSE IF WithinLimit(Len(content), max_chars) THEN content
    ELSE LET paragraphs == Paragraphs(content)
         IN IF paragraphs = <<>> THEN SimpleTruncate(content, max_chars)
            ELSE IF Len(paragraphs) = 1 THEN SimpleTruncate(paragraphs[1], max_chars)
            ELSE LET first_para == paragraphs[1]
                     last_para == paragraphs[Len(paragraphs)]
                     intro_len == Len(first_para)
                     conclusion_len == Len(last_para)
                     min_required == intro_len + conclusion_len + LegacySeparatorLen
                     remaining == max_chars - intro_len - LegacySeparatorLen
                                  - LegacyEllipsisLen - LegacySeparatorLen
                     remaining_budget == max_chars - intro_len - conclusion_len
                                         - LegacySeparatorLen - LegacyEllipsisLen
                                         - LegacySeparatorLen
                     middle_paragraphs == IF Len(paragraphs) > 2
                                          THEN SubSeq(paragraphs, 2, Len(paragraphs) - 1)
                                          ELSE <<>>
                     middle_parts == FitMiddle(middle_paragraphs, remaining_budget, 0,
                                               LegacySeparatorLen)
                     marker == IF middle_parts # <<>>
                               THEN (IF Len(middle_parts) < Len(middle_paragraphs)
                                     THEN <<TruncationEllipsis>> ELSE <<>>)
                               ELSE (IF middle_paragraphs # <<>>
                                     THEN <<TruncationEllipsis>> ELSE <<>>)
                 IN IF min_required > max_chars
                    THEN IF intro_len + LegacyEllipsisLen + LegacyMinConclusionRoom <= max_chars
                         THEN IF remaining > LegacyMinRemaining
                              THEN first_para \o Separator \o TruncationEllipsis \o Separator
                                   \o SimpleTruncate(last_para, remaining)
                              ELSE SimpleTruncate(first_para, max_chars)
                         ELSE SimpleTruncate(first_para, max_chars)
                    ELSE PyJoin(Separator, <<first_para>> \o middle_parts \o marker
                                           \o <<last_para>>)

\* self._extractor.truncate(content) / self.extractor.smart_truncate(content):
\* the budget is left to its default
ExtractorTruncate(content) ==
    IF impl = "service" THEN Truncate(content, 0, MaxContentChars)
    ELSE SmartTruncate(content, MaxContentChars)

\* ------------------------------------------------------------------- Init
Init ==
    /\ impl \in Impls
    /\ callback \in BOOLEAN
    /\ num_sources \in MinSources..Min(MaxRequested, MaxSources)
    /\ output_format \in (IF impl = "agent" THEN OutputFormats ELSE {"n/a"})
    /\ language = <<>>
    /\ pc = "start"
    /\ results = <<>>
    /\ i = 0
    /\ extracted = <<>>
    /\ summaries = <<>>
    /\ source_num = 0
    /\ report = <<>>
    /\ events = <<>>
    /\ calls = <<>>
    /\ raised = <<>>
    /\ result = <<>>
    /\ cb_raised = FALSE
    /\ twin = <<>>
    /\ cpc = "off"
    /\ taken = 0
    /\ yielded = <<>>
    /\ tr_content = <<>>
    /\ tr_max_chars = 0
    /\ tr_result = <<>>
    /\ tr_parts = <<>>
    /\ fn_name = "none"
    /\ fn_args = <<>>
    /\ fn_ret = <<>>

\* ------------------------------------------------- collaborator call log
Call(op, args) == [op |-> op, kind |-> "call", val |-> args]

Return(op, value) == [op |-> op, kind |-> "return", val |-> value]

Raise(op, exc) == [op |-> op, kind |-> "raise", val |-> exc]

\* the behaviour of the collaborators: free in the first run of a request;
\* a second run is answered as the first was, as far as the first went
SameBehaviour(entry) ==
    IF twin = <<>> THEN TRUE
    ELSE IF Len(calls) >= Len(twin[1].calls) THEN TRUE
    ELSE twin[1].calls[Len(calls) + 1] = entry

SameLanguage(lang) == IF twin = <<>> THEN TRUE ELSE twin[1].language = <<lang>>

\* ------------------------------------------------------ guards of the code
\* faulty variant: the empty-result check is dropped
SearchFailedNever(res) == FALSE

\* `if not results`
SearchFailed(res) == res = <<>>

\* `if not summaries`
NoSummaries(sums) == sums = <<>>

\* faulty variant: the missing-report check is dropped
ReportMissingNever(rep) == FALSE

\* `if not report`
ReportMissing(rep) == rep = <<>>

\* `if not summary`: None and the empty string are both falsy
SummaryMissing(s) == s = <<>> \/ s[1] = ""

\* faulty variant: the summary is numbered by the enumerate index of its hit
NextSourceNumberByIndex(n, idx) == idx

\* `source_num += 1` ; idx is the enumerate index of the hit
NextSourceNumber(n, idx) == n + 1

\* faulty variant: the summary is inserted at the front of the list
PrependSummary(sums, s) == <<s>> \o sums

\* `summaries.append(...)`
AppendSummary(sums, s) == Append(sums, s)

\* faulty variant: the extracted content is passed on as it came
SummarizeArgsRaw(doc, lang) == <<doc.content, doc.title, lang>>

\* `truncated = self._extractor.truncate(extracted.content)`, then
\* `summarize(truncated, extracted.title, language)`
SummarizeArgs(doc, lang) == <<ExtractorTruncate(doc.content), doc.title, lang>>

\* faulty variant: the loop goes back to the first hit on every turn
HitAtFirst(hits, idx) == hits[1]

\* `for i, result in enumerate(results, 1)`: the hit of the idx-th turn
HitAt(hits, idx) == hits[idx]

\* faulty variant: the event counts the sources that succeeded so far
ProgressCurrentBySuccess(idx, num) == num + 1

\* `current=i` of the fetching and summarizing events; idx is the enumerate
\* index of the hit, num the source_num reached
ProgressCurrent(idx, num) == idx

\* faulty variant: one spare source is asked for
SearchArgsPadded(topic, n) == <<topic, n + 1>>

\* the arguments of self._search.search(topic, num_sources)
SearchArgs(topic, n) == <<topic, n>>

\* ---------------------------------------------------------------- actions
\* research(): detect the language, emit `searching`, await search()
Research ==
    /\ pc = "start"
    /\ \E lang \in Languages : SameLanguage(lang) /\ language' = <<lang>>
    /\ events' = Emit(events, ProgressEvent("searching", 0, 0, 0))
    /\ calls' = calls \o <<Call("detect", <<Topic>>), Call("search", SearchArgs(Topic, num_sources))>>
    /\ \E fail \in CallbackRaises :
         /\ cb_raised' = (cb_raised \/ fail)
         /\ pc' = PcAfterEmit(fail, "search")
         /\ raised' = RaisedAfterEmit(fail, raised)
    /\ UNCHANGED <<request, twin, consumer, truncation, purecall, results, i, extracted, summaries,
                   source_num, report, result>>

\* search() returns a list: empty aborts the request, otherwise emit `found`
SearchReturns ==
    /\ pc = "search"
    /\ \E urls \in SearchOutcomes(num_sources) :
         LET res == [k \in 1..Len(urls) |-> SearchResult(urls[k])]
         IN /\ SameBehaviour(Return("search", res))
            /\ results' = res
            /\ calls' = Append(calls, Return("search", res))
            /\ IF SearchFailed(res)
               THEN /\ raised' = <<SearchFailedError>>
                    /\ pc' = "done"
                    /\ UNCHANGED <<events, cb_raised>>
               ELSE /\ events' = Emit(events, ProgressEvent("found", 0, 0, Len(res)))
                    /\ \E fail \in CallbackRaises :
                         /\ cb_raised' = (cb_raised \/ fail)
                         /\ pc' = PcAfterEmit(fail, "loop")
                         /\ raised' = RaisedAfterEmit(fail, raised)
    /\ UNCHANGED <<request, twin, consumer, truncation, purecall, language, i, extracted, summaries,
                   source_num, report, result>>

\* search() raises: nothing in research() catches it.  Only the service is
\* given collaborators that raise: the legacy searcher, extractor, summarizer
\* and reasoning chain catch every exception themselves and return None/[].
SearchRaises ==
    /\ pc = "search"
    /\ impl = "service"
    /\ \E e \in ProviderErrors :
         /\ SameBehaviour(Raise("search", e))
         /\ calls' = Append(calls, Raise("search", e))
         /\ raised' = <<e>>
    /\ pc' = "done"
    /\ UNCHANGED <<request, twin, consumer, truncation, purecall, cb_raised, language, results, i, extracted,
                   summaries, source_num, report, events, result>>

\* top of the for loop with a hit left: emit `fetching`, await extract(url)
FetchNext ==
    /\ pc = "loop"
    /\ i < Len(results)
    /\ i' = i + 1
    /\ events' = Emit(events, ProgressEvent("fetching", ProgressCurrent(i + 1, source_num),
                                          Len(results), 0))
    /\ calls' = Append(calls, Call("extract", <<HitAt(results, i + 1).url>>))
    /\ \E fail \in CallbackRaises :
         /\ cb_raised' = (cb_raised \/ fail)
         /\ pc' = PcAfterEmit(fail, "extract")
         /\ raised' = RaisedAfterEmit(fail, raised)
    /\ UNCHANGED <<request, twin, consumer, truncation, purecall, language, results, extracted,
                   summaries, source_num, report, result>>

\* extract() returns: None skips the hit, a document is truncated and
\* handed to summarize() after `summarizing` is emitted
ExtractReturns ==
    /\ pc = "extract"
    /\ \E doc \in ExtractOutcomes(results[i].url) :
         /\ SameBehaviour(Return("extract", doc))
         /\ extracted' = doc
         /\ IF doc = <<>>
            THEN /\ calls' = Append(calls, Return("extract", doc))
                 /\ pc' = "loop"
                 /\ UNCHANGED <<events, cb_raised, raised>>
            ELSE /\ calls' = calls \o <<Return("extract", doc),
                                        Call("summarize", SummarizeArgs(doc[1], language[1]))>>
                 /\ events' = Emit(events, ProgressEvent("summarizing",
                                          ProgressCurrent(i, source_num), Len(results), 0))
                 /\ \E fail \in CallbackRaises :
                      /\ cb_raised' = (cb_raised \/ fail)
                      /\ pc' = PcAfterEmit(fail, "summarize")
                      /\ raised' = RaisedAfterEmit(fail, raised)
    /\ UNCHANGED <<request, twin, consumer, truncation, purecall, language, results, i, summaries,
                   source_num, report, result>>

\* extract() raises: nothing in _process_sources catches it
ExtractRaises ==
    /\ pc = "extract"
    /\ impl = "service"
    /\ \E e \in ProviderErrors :
         /\ SameBehaviour(Raise("extract", e))
         /\ calls' = Append(calls, Raise("extract", e))
         /\ raised' = <<e>>
    /\ pc' = "done"
    /\ UNCHANGED <<request, twin, consumer, truncation, purecall, cb_raised, language, results, i, extracted,
                   summaries, source_num, report, events, result>>

\* summarize() returns: None skips the hit, a text becomes a SourceSummary
SummarizeReturns ==
    /\ pc = "summarize"
    /\ \E s \in SummarizeOutcomes :
         /\ SameBehaviour(Return("summarize", s))
         /\ calls' = Append(calls, Return("summarize", s))
         /\ IF SummaryMissing(s)
            THEN UNCHANGED <<source_num, summaries>>
            ELSE /\ source_num' = NextSourceNumber(source_num, i)
                 /\ summaries' = AppendSummary(summaries,
                        SourceSummary(source_num', extracted[1].title, results[i].url, s[1]))
    /\ pc' = "loop"
    /\ UNCHANGED <<request, twin, consumer, truncation, purecall, cb_raised, language, results, i, extracted,
                   report, events, raised, result>>

\* summarize() raises (OpenAISummarizer maps every LLM failure to a raise):
\* nothing in _process_sources catches it
SummarizeRaises ==
    /\ pc = "summarize"
    /\ impl = "service"
    /\ \E e \in CollaboratorErrors :
         /\ SameBehaviour(Raise("summarize", e))
         /\ calls' = Append(calls, Raise("summarize", e))
         /\ raised' = <<e>>
    /\ pc' = "done"
    /\ UNCHANGED <<request, twin, consumer, truncation, purecall, cb_raised, language, results, i, extracted,
                   summaries, source_num, report, events, result>>

\* the for loop is exhausted: no summaries aborts the request, otherwise
\* emit `analyzing` and await the report generator
ProcessDone ==
    /\ pc = "loop"
    /\ i = Len(results)
    /\ IF NoSummaries(summaries)
       THEN /\ raised' = <<NoSourcesFoundError>>
            /\ pc' = "done"
            /\ UNCHANGED <<events, calls, cb_raised>>
       ELSE /\ events' = Emit(events, ProgressEvent("analyzing", 0, 0, 0))
            /\ calls' = Append(calls, Call("generate", <<summaries, Topic, language[1]>>))
            /\ \E fail \in CallbackRaises :
                 /\ cb_raised' = (cb_raised \/ fail)
                 /\ pc' = PcAfterEmit(fail, "generate")
                 /\ raised' = RaisedAfterEmit(fail, raised)
    /\ UNCHANGED <<request, twin, consumer, truncation, purecall, language, results, i, extracted,
                   summaries, source_num, report, result>>

\* the report generator returns: None aborts the request; with a report the
\* agent emits `finalizing`, formats, emits `complete` and returns the
\* string, the service emits `complete` and builds its ResearchResult
GenerateReturns ==
    /\ pc = "generate"
    /\ \E rep \in {<<>>, <<FinalReport(summaries, language[1])>>} :
         /\ SameBehaviour(Return("generate", rep))
         /\ report' = rep
         /\ IF ReportMissing(rep)
            THEN /\ calls' = Append(calls, Return("generate", rep))
                 /\ raised' = <<AIServiceError>>
                 /\ UNCHANGED <<events, result, cb_raised>>
            ELSE IF impl = "agent"
            THEN /\ calls' = calls \o <<Return("generate", rep), Call("format", <<rep, output_format>>)>>
                 /\ events' = Emit(Emit(events, ProgressEvent("finalizing", 0, 0, 0)),
                                   ProgressEvent("complete", 0, 0, 0))
                 /\ \E fail \in CallbackRaises :
                      /\ cb_raised' = (cb_raised \/ fail)
                      /\ raised' = RaisedAfterEmit(fail, raised)
                      /\ result' = IF Swallowed(fail)
                                    THEN <<[formatted |-> rep, format |-> output_format]>>
                                    ELSE result
            ELSE LET built == ResearchResult([report |-> rep, language |-> language[1]])
                 IN /\ calls' = Append(calls, Return("generate", rep))
                    /\ events' = Emit(events, ProgressEvent("complete", 0, 0, 0))
                    /\ \E fail \in CallbackRaises :
                         /\ cb_raised' = (cb_raised \/ fail)
                         /\ IF ~ Swallowed(fail)
                            THEN raised' = <<CallbackError>> /\ result' = result
                            ELSE IF built.ok
                            THEN result' = <<built.value>> /\ raised' = raised
                            ELSE raised' = <<built.value>> /\ result' = result
    /\ pc' = "done"
    /\ UNCHANGED <<request, twin, consumer, truncation, purecall, language, results, i, extracted,
                   summaries, source_num>>

\* the report generator raises: nothing in research() catches it
GenerateRaises ==
    /\ pc = "generate"
    /\ impl = "service"
    /\ \E e \in CollaboratorErrors :
         /\ SameBehaviour(Raise("generate", e))
         /\ calls' = Append(calls, Raise("generate", e))
         /\ raised' = <<e>>
    /\ pc' = "done"
    /\ UNCHANGED <<request, twin, consumer, truncation, purecall, cb_raised, language, results, i, extracted,
                   summaries, source_num, report, events, result>>

Next ==
    \/ Research
    \/ SearchReturns
    \/ SearchRaises
    \/ FetchNext
    \/ ExtractReturns
    \/ ExtractRaises
    \/ SummarizeReturns
    \/ SummarizeRaises
    \/ ProcessDone
    \/ GenerateReturns
    \/ GenerateRaises

Spec == Init /\ [][Next]_vars

\* ------------------------------------------------------------ second run
\* research() is called again with the same arguments and a callback that
\* never raises, after a run in which the callback raised; the collaborators
\* answer as they did in the first run (SameBehaviour)
Rerun ==
    /\ pc = "done"
    /\ twin = <<>>
    /\ cb_raised
    /\ twin' = <<[language |-> language, calls |-> calls, events |-> events,
                  raised |-> raised, result |-> result]>>
    /\ language' = <<>>
    /\ pc' = "start"
    /\ results' = <<>>
    /\ i' = 0
    /\ extracted' = <<>>
    /\ summaries' = <<>>
    /\ source_num' = 0
    /\ report' = <<>>
    /\ events' = <<>>
    /\ calls' = <<>>
    /\ raised' = <<>>
    /\ result' = <<>>
    /\ cb_raised' = FALSE
    /\ UNCHANGED <<request, consumer, truncation, purecall>>

TwinNext == Next \/ Rerun

TwinSpec == Init /\ [][TwinNext]_vars

\* ------------------------------------------------- truncation on its own
\* the texts truncation is called with: up to MaxParagraphs paragraphs of
\* the lengths below (none: the empty text), words of WordLen - 1 letters, each paragraph of a
\* letter of its own, followed by `pad` blanks, joined by blank lines
MaxParagraphs == 4
MaxParagraphLen == 230
WordLen == 8

ParagraphLengths == {3, 95, 100, MaxParagraphLen}
Paddings == {0, 4}
Budgets == {1, 2, 60, 198, 200, 204, 250}
Letters == <<"a", "b", "c", "d", "e">>

Paragraph(k, len) ==
    [j \in 1..len |-> IF j % WordLen = 0 /\ j < len THEN " " ELSE Letters[k]]

Blanks(n) == [j \in 1..n |-> " "]

Document(lens, pad) ==
    PyJoin(Separator, [k \in 1..Len(lens) |-> Paragraph(k, lens[k]) \o Blanks(pad)])

ShortestParagraph == CHOOSE n \in ParagraphLengths : \A m \in ParagraphLengths : n <= m

\* the texts tried: every text of up to three paragraphs, and longer ones
\* whose first and last paragraph are the shortest, so that the middle
\* paragraphs decide what is kept
LengthSeqs ==
    {lens \in UNION {[1..n -> ParagraphLengths] : n \in 0..MaxParagraphs} :
        Len(lens) > 3 => lens[1] = ShortestParagraph /\ lens[Len(lens)] = ShortestParagraph}

\* extractor.truncate(content, max_chars=...) / smart_truncate(content, max_chars=...)
TruncateBy(text, limit) ==
    IF impl = "service" THEN Truncate(text, limit, MaxContentChars)
    ELSE SmartTruncate(text, limit)

\* a text and a positive max_chars are chosen: one of the budgets, or the
\* length of the text itself
TruncInit ==
    /\ impl \in Impls
    /\ callback = FALSE
    /\ num_sources = MinSources
    /\ output_format = "n/a"
    /\ language = <<>>
    /\ pc = "start"
    /\ results = <<>>
    /\ i = 0
    /\ extracted = <<>>
    /\ summaries = <<>>
    /\ source_num = 0
    /\ report = <<>>
    /\ events = <<>>
    /\ calls = <<>>
    /\ raised = <<>>
    /\ result = <<>>
    /\ cb_raised = FALSE
    /\ twin = <<>>
    /\ cpc = "off"
    /\ taken = 0
    /\ yielded = <<>>
    /\ \E lens \in LengthSeqs, pad \in Paddings :
         /\ tr_parts = [k \in 1..Len(lens) |-> Paragraph(k, lens[k])]
         /\ tr_content = Document(lens, pad)
    /\ tr_max_chars \in Budgets \cup {Len(tr_content)}
    /\ tr_result = <<>>
    /\ fn_name = "none"
    /\ fn_args = <<>>
    /\ fn_ret = <<>>

\* the call returns
TruncateCall ==
    /\ tr_result = <<>>
    /\ tr_result' = <<TruncateBy(tr_content, tr_max_chars)>>
    /\ UNCHANGED <<request, twin, consumer, cb_raised, language, pc, results, i, extracted,
                   summaries, source_num, report, events, calls, raised, result,
                   tr_content, tr_max_chars, tr_parts, purecall>>

TruncNext == TruncateCall

TruncSpec == TruncInit /\ [][TruncNext]_vars

\* ------------------------------------------------- functions on their own
\* a keyword argument is <<>> when omitted and <<value>> when given; a value
\* carries its python type
PyStr(v) == [type |-> "str", val |-> v]

PyInt(v) == [type |-> "int", val |-> v]

Repeat(c, n) == [k \in 1..n |-> c]

\* ResearchRequest: Field(..., min_length=1, max_length=500),
\* Field(default=5, ge=3, le=10), Literal["json", "markdown"] = "markdown"
MinTopicLength == 1
MaxTopicLength == 500
DefaultSources == 5
DefaultOutputFormat == "markdown"

\* str with min_length and max_length
StrField(v, min_length, max_length) ==
    /\ v.type = "str"
    /\ Len(v.val) >= min_length
    /\ Len(v.val) <= max_length

\* int with ge and le
IntField(v, ge, le) ==
    /\ v.type = "int"
    /\ v.val >= ge
    /\ v.val <= le

\* Literal[...]
LiteralField(v, allowed) == v.type = "str" /\ v.val \in allowed

\* faulty variant: the topic is not stripped before it is tested
TopicNotEmpty(v) == v # <<>>

\* topic_not_whitespace_only: `if not v.strip(): raise ValueError`
TopicNotWhitespaceOnly(v) == PyStrip(v) # <<>>

\* the fields pydantic reports: a required field that is missing, a value
\* that fails its constraints, or one its validator rejects
ResearchRequestErrors(kwargs) ==
    {f \in {"topic"} :
        \/ kwargs.topic = <<>>
        \/ ~ StrField(kwargs.topic[1], MinTopicLength, MaxTopicLength)
        \/ ~ TopicNotWhitespaceOnly(kwargs.topic[1].val)}
    \cup {f \in {"num_sources"} :
        /\ kwargs.num_sources # <<>>
        /\ ~ IntField(kwargs.num_sources[1], MinSources, MaxSources)}
    \cup {f \in {"output_format"} :
        /\ kwargs.output_format # <<>>
        /\ ~ LiteralField(kwargs.output_format[1], OutputFormats)}

\* ResearchRequest(**kwargs): the model, or ValidationError
NewResearchRequest(kwargs) ==
    IF ResearchRequestErrors(kwargs) # {}
    THEN [raised |-> "ValidationError", fields |-> ResearchRequestErrors(kwargs)]
    ELSE [raised |-> "",
          topic |-> kwargs.topic[1].val,
          num_sources |-> IF kwargs.num_sources = <<>> THEN DefaultSources
                          ELSE kwargs.num_sources[1].val,
          output_format |-> IF kwargs.output_format = <<>> THEN DefaultOutputFormat
                            ELSE kwargs.output_format[1].val]

\* the requests tried: topics around both length limits, blank and not,
\* counts around both limits, known and unknown formats, every field also
\* omitted or of the wrong type
TopicLengths == {0, 1, 2, MaxTopicLength - 1, MaxTopicLength, MaxTopicLength + 1}

TopicsTried ==
    {<<>>, <<PyInt(7)>>}
    \cup {<<PyStr(Repeat(c, n))>> : c \in {"a", " ", "\t", "\n"}, n \in TopicLengths}
    \cup {<<PyStr(<<" ">> \o Repeat("a", n) \o <<"\n">>)>> : n \in {0, 1, MaxTopicLength - 2, MaxTopicLength - 1}}

SourceCountsTried ==
    {<<>>, <<PyStr("many")>>}
    \cup {<<PyInt(n)>> : n \in {0 - 1, 0, MinSources - 1, MinSources, DefaultSources,
                               MaxSources, MaxSources + 1}}

OutputFormatsTried ==
    {<<>>, <<PyInt(1)>>} \cup {<<PyStr(f)>> : f \in OutputFormats \cup {"", "xml", "JSON"}}

RequestsTried ==
    [topic : TopicsTried, num_sources : SourceCountsTried, output_format : OutputFormatsTried]

\* LanguageDetector: SUPPORTED_LANGUAGES is Languages
DefaultLanguage == "en"

\* faulty variant: no code is taken for Persian
ArabicScriptNone == {}

ArabicScriptLanguages == {"ar", "fa", "ur"}

LangDetectException == "LangDetectException"

\* langdetect.detect(text) yields a code or raises LangDetectException
LibraryCodes == {"en", "fa", "ar", "ur", "de", "ja", "zh-cn"}

LibraryOutcomes ==
    [raised : {""}, code : LibraryCodes] \cup [raised : {LangDetectException}, code : {""}]

\* LanguageDetector.detect(text), the library answering `outcome`
Detect(text, outcome) ==
    IF text = <<>> \/ PyStrip(text) = <<>>
    THEN [raised |-> "", value |-> DefaultLanguage]
    ELSE IF outcome.raised = LangDetectException
         THEN [raised |-> "", value |-> DefaultLanguage]
         ELSE IF outcome.code \in Languages
              THEN [raised |-> "", value |-> outcome.code]
              ELSE IF outcome.code \in ArabicScriptLanguages
                   THEN [raised |-> "", value |-> "fa"]
                   ELSE [raised |-> "", value |-> DefaultLanguage]

TextsTried ==
    {<<>>, <<" ">>, <<" ", " ", " ">>, <<"\t", "\n">>, <<"a">>, <<" ", "a", "b", " ">>,
     <<"a", " ", "b">>}

DetectionsTried == [text : TextsTried, outcome : LibraryOutcomes]

\* Markdown output: a text is the sequence of its lines, a line is a header
\* "# title", a bullet "- point", a citation "[N] Title - URL", the text of
\* a field, or empty
HeaderLine(title) == [kind |-> "header", body |-> title]

BulletLine(point) == [kind |-> "bullet", body |-> point]

CitationLine(c) == [kind |-> "citation", body |-> c]

TextLine(text) == [kind |-> "text", body |-> text]

EmptyLine == [kind |-> "empty", body |-> ""]

EnglishTitles ==
    [summary |-> "Summary", key_points |-> "Key Points",
     comparison |-> "Comparison", citations |-> "Citations"]

\* SECTION_TITLES, the rows of the languages a report can carry; the
\* Persian words are written in Latin letters here
SectionTitles ==
    [en |-> EnglishTitles,
     fa |-> [summary |-> "Kholaseh", key_points |-> "Nokat-e Kelidi",
             comparison |-> "Moghayeseh", citations |-> "Manabe"]]

\* get_titles: SECTION_TITLES.get(language, SECTION_TITLES["en"])
GetTitles(lang) ==
    IF lang \in DOMAIN SectionTitles THEN SectionTitles[lang] ELSE SectionTitles["en"]

\* the lines of sep.join(items) where every item is one line and sep is
\* `gap` empty lines wide: no item gives one empty line
JoinLines(items, gap) ==
    IF items = <<>> THEN <<EmptyLine>>
    ELSE [k \in 1..(Len(items) + gap * (Len(items) - 1)) |->
            IF (k - 1) % (gap + 1) = 0 THEN items[(k - 1) \div (gap + 1) + 1]
            ELSE EmptyLine]

\* MarkdownJsonFormatter._to_markdown
ToMarkdown(rep) ==
    LET titles == GetTitles(rep.language)
    IN <<HeaderLine(titles.summary), EmptyLine, TextLine(rep.summary), EmptyLine,
         HeaderLine(titles.key_points), EmptyLine>>
       \o JoinLines([k \in 1..Len(rep.key_points) |-> BulletLine(rep.key_points[k])], 0)
       \o <<EmptyLine, HeaderLine(titles.comparison), EmptyLine,
            TextLine(rep.comparison), EmptyLine,
            HeaderLine(titles.citations), EmptyLine>>
       \o JoinLines([k \in 1..Len(rep.citations) |-> CitationLine(rep.citations[k])], 1)

\* OutputFormatter._format_markdown
FormatMarkdown(rep) ==
    <<HeaderLine("Summary"), EmptyLine, TextLine(rep.summary), EmptyLine,
      HeaderLine("Key Points"), EmptyLine>>
    \o [k \in 1..Len(rep.key_points) |-> BulletLine(rep.key_points[k])]
    \o <<EmptyLine, HeaderLine("Comparison"), EmptyLine, TextLine(rep.comparison),
         EmptyLine, HeaderLine("Citations"), EmptyLine>>
    \o [k \in 1..Len(rep.citations) |-> CitationLine(rep.citations[k])]

\* format(report, "markdown")
Markdown(rep) == IF impl = "service" THEN ToMarkdown(rep) ELSE FormatMarkdown(rep)

\* the reports tried: up to MaxKeyPoints key points in either order, up to
\* MaxCitations citations, in a language a report can carry
MaxKeyPoints == 2
MaxCitations == 2

KeyPointsTried ==
    {[k \in 1..n |-> k] : n \in 0..MaxKeyPoints}
    \cup {[k \in 1..n |-> n + 1 - k] : n \in 0..MaxKeyPoints}

CitationsTried ==
    {[k \in 1..n |-> Citation(k, "title", k)] : n \in 0..MaxCitations}

ReportsTried ==
    [summary : {"main"}, key_points : KeyPointsTried, comparison : {"cmp"},
     citations : CitationsTried, language : Languages]

\* word-boundary truncation on its own: every text of up to MaxTextLen
\* letters, spaces and tabs, every positive max_chars up to MaxTextLen
MaxTextLen == 5

ShortTexts == UNION {[1..n -> {"a", " ", "\t"}] : n \in 0..MaxTextLen}

SuffixesTried == {DefaultSuffix, <<>>, <<"~">>}

\* truncate_at_word_boundary(text, max_chars, suffix) of the service,
\* _simple_truncate(text, max_chars) of the legacy extractor
WordBoundaryCut(a) ==
    IF impl = "service" THEN TruncateAtWordBoundary(a.text, a.max_chars, a.suffix)
    ELSE SimpleTruncate(a.text, a.max_chars)

CutsTried ==
    {[fn |-> "truncate_at_word_boundary", impl |-> "service", args |-> a] :
        a \in [text : ShortTexts, max_chars : 1..MaxTextLen, suffix : SuffixesTried]}
    \cup {[fn |-> "truncate_at_word_boundary", impl |-> "agent", args |-> a] :
        a \in [text : ShortTexts, max_chars : 1..MaxTextLen, suffix : {DefaultSuffix}]}

\* report generation on its own.  What the three chains of the generator
\* get from the LLM is an input: <<>> when the chain raises, <<text>> when
\* it answers with text
\* s.split("\n")
RECURSIVE PySplitLines(_)
PySplitLines(s) ==
    LET cuts == {k \in 1..Len(s) : s[k] = "\n"}
    IN IF cuts = {} THEN <<s>>
       ELSE LET k == CHOOSE c \in cuts : \A d \in cuts : c <= d
            IN <<SubSeq(s, 1, k - 1)>> \o PySplitLines(SubSeq(s, k + 1, Len(s)))

\* c.isdigit() for one character
IsDigit(c) == c \in {"0", "1", "2", "3", "4", "5", "6", "7", "8", "9"}

\* the bullet character U+2022, written in ASCII as one character
Bullet == "U+2022"

\* `for prefix in (bullet, "-", "*")`
BulletPrefixes == {Bullet, "-", "*"}

\* line.split(".", 1)[1] for a line that holds a "."
AfterFirstDot(line) ==
    LET dots == {k \in 1..Len(line) : line[k] = "."}
        k == CHOOSE c \in dots : \A d \in dots : c <= d
    IN SubSeq(line, k + 1, Len(line))

\* the key points one stripped line of the answer gives: a bulleted line
\* gives the text after the bullet, a numbered line the text after the
\* first "."; the legacy chain also takes a line that begins with neither
\* a bullet nor a digit, as it is
KeyPointsOfLine(line) ==
    IF line # <<>> /\ line[1] \in BulletPrefixes THEN <<PyStrip(Tail(line))>>
    ELSE IF impl = "agent" /\ line # <<>> /\ ~ IsDigit(line[1]) THEN <<line>>
    ELSE IF line # <<>> /\ IsDigit(line[1]) /\ \E k \in 1..Len(line) : line[k] = "."
         THEN <<PyStrip(AfterFirstDot(line))>>
    ELSE <<>>

RECURSIVE KeyPointsOfLines(_)
KeyPointsOfLines(lines) ==
    IF lines = <<>> THEN <<>>
    ELSE KeyPointsOfLine(PyStrip(Head(lines))) \o KeyPointsOfLines(Tail(lines))

\* _parse_key_points(text), and the same loop inside the legacy
\* _extract_key_points: `points if points else None`
ParseKeyPoints(text) ==
    LET points == KeyPointsOfLines(PySplitLines(PyStrip(text)))
    IN IF points = <<>> THEN <<>> ELSE <<points>>

\* _extract_key_points: None when the chain raises or answers nothing
ExtractKeyPoints(answer) ==
    IF answer = <<>> \/ answer[1] = <<>> THEN <<>> ELSE ParseKeyPoints(answer[1])

\* _generate_summary, _generate_comparison:
\* `result.strip() if result else None`, None when the chain raises
GenerateSection(answer) ==
    IF answer = <<>> \/ answer[1] = <<>> THEN <<>> ELSE <<PyStrip(answer[1])>>

\* `not x` for an Optional[str] or Optional[list]
Falsy(x) == x = <<>> \/ x[1] = <<>>

\* faulty variant: the comparison is only tested against None
SectionMissingIsNone(main_summary, key_points, comparison) ==
    Falsy(main_summary) \/ Falsy(key_points) \/ comparison = <<>>

\* `if not all([main_summary, key_points, comparison])`
SectionMissing(main_summary, key_points, comparison) ==
    Falsy(main_summary) \/ Falsy(key_points) \/ Falsy(comparison)

\* LangChainReportGenerator.generate / ReasoningChain.generate_report
GenerateReport(a) ==
    IF a.summaries = <<>> THEN <<>>
    ELSE LET main_summary == GenerateSection(a.llm.summary)
             key_points == ExtractKeyPoints(a.llm.key_points)
             comparison == GenerateSection(a.llm.comparison)
         IN IF SectionMissing(main_summary, key_points, comparison) THEN <<>>
            ELSE <<[summary |-> main_summary[1], key_points |-> key_points[1],
                    comparison |-> comparison[1],
                    citations |-> BuildCitations(a.summaries), language |-> a.language]>>

\* the answers tried: every text of up to MaxAnswerLen characters for the
\* key points with two good sections, and every pair of section answers
\* with a few key-point answers
MaxAnswerLen == 3

AnswerChars == {"-", "1", ".", "a", "\n", " "}

AnswerTexts == UNION {[1..n -> AnswerChars] : n \in 0..MaxAnswerLen}

SectionAnswers == {<<>>, <<<<>>>>, <<<<" ">>>>, <<<<"a">>>>, <<<<" ", "a", "\n">>>>}

KeyPointAnswers == {<<>>, <<<<>>>>, <<<<"\n">>>>, <<<<Bullet, "a">>>>, <<<<"1", "a">>>>}

SummariesTried ==
    {[k \in 1..n |-> SourceSummary(k, "title", UrlNames[k], "summary")] :
        n \in 0..MaxCitations}

AnswersTried ==
    [summary : {<<<<"a">>>>}, key_points : {<<t>> : t \in AnswerTexts},
     comparison : {<<<<"a">>>>}]
    \cup [summary : SectionAnswers, key_points : KeyPointAnswers,
          comparison : SectionAnswers]

GenerationsTried ==
    [summaries : SummariesTried, topic : {Topic}, language : Languages, llm : AnswersTried]

FnInputs ==
    CutsTried
    \cup {[fn |-> "ResearchRequest", impl |-> "agent", args |-> a] : a \in RequestsTried}
    \cup {[fn |-> "detect", impl |-> "agent", args |-> a] : a \in DetectionsTried}
    \cup {[fn |-> "format", impl |-> m, args |-> a] : m \in Impls, a \in ReportsTried}
    \cup {[fn |-> "generate", impl |-> m, args |-> a] : m \in Impls, a \in GenerationsTried}

\* one function and its arguments are chosen; the pipeline stays idle
FnInit ==
    /\ callback = FALSE
    /\ num_sources = MinSources
    /\ output_format = "n/a"
    /\ language = <<>>
    /\ pc = "start"
    /\ results = <<>>
    /\ i = 0
    /\ extracted = <<>>
    /\ summaries = <<>>
    /\ source_num = 0
    /\ report = <<>>
    /\ events = <<>>
    /\ calls = <<>>
    /\ raised = <<>>
    /\ result = <<>>
    /\ cb_raised = FALSE
    /\ twin = <<>>
    /\ cpc = "off"
    /\ taken = 0
    /\ yielded = <<>>
    /\ tr_content = <<>>
    /\ tr_max_chars = 0
    /\ tr_result = <<>>
    /\ tr_parts = <<>>
    /\ \E inp \in FnInputs : fn_name = inp.fn /\ impl = inp.impl /\ fn_args = inp.args
    /\ fn_ret = <<>>

Returns(name, value) ==
    /\ fn_name = name
    /\ fn_ret = <<>>
    /\ fn_ret' = <<value>>
    /\ UNCHANGED <<request, twin, consumer, truncation, cb_raised, language, pc, results, i,
                   extracted, summaries, source_num, report, events, calls, raised, result,
                   fn_name, fn_args>>

ConstructRequest == Returns("ResearchRequest", NewResearchRequest(fn_args))

DetectLanguage == Returns("detect", Detect(fn_args.text, fn_args.outcome))

FormatAsMarkdown == Returns("format", Markdown(fn_args))

CutAtWordBoundary == Returns("truncate_at_word_boundary", WordBoundaryCut(fn_args))

GenerateFinalReport == Returns("generate", GenerateReport(fn_args))

FnNext ==
    \/ ConstructRequest
    \/ DetectLanguage
    \/ FormatAsMarkdown
    \/ CutAtWordBoundary
    \/ GenerateFinalReport

FnSpec == FnInit /\ [][FnNext]_vars

\* -------------------------------------------------------- research_stream
\* format_sse_event(event_type, data)
FormatSseEvent(event_type, data) == [event |-> event_type, data |-> data]

UnexpectedMessage == "An unexpected error occurred. Please try again."

\* an exception that is not a ResearchError, escaping the research task
UnexpectedErrors == {Exception("Exception", "boom")}

\* progress_queue: progress_callback puts every event it is awaited with,
\* the generator has got the first `taken` of them
ProgressQueue == SubSeq(events, taken + 1, Len(events))

\* faulty variant: the loop never sees the task as done
TaskDoneNever(p) == FALSE

\* research_task.done()
TaskDone(p) == p = "done"

\* faulty variant: the queue is taken for empty once the task is done
QueueEmptyAlways(q) == TRUE

\* progress_queue.empty()
QueueEmpty(q) == q = <<>>

\* faulty variant: every exception is handled as a ResearchError
ErrorMessageRaw(exc) == exc.message

\* ResearchError and its subclasses
ResearchErrorTypes ==
    {"ResearchError", "SearchFailedError", "NoSourcesFoundError", "AIServiceError"}

\* `except ResearchError as e: e.message`, `except Exception:` the fixed text
ErrorMessage(exc) ==
    IF exc.type \in ResearchErrorTypes THEN exc.message ELSE UnexpectedMessage

\* faulty variant: the handlers yield nothing
ErrorEventsNone(exc) == <<>>

\* what the except clauses yield for the exception of the task
ErrorEvents(exc) == <<FormatSseEvent("error", [message |-> ErrorMessage(exc)])>>

\* research_stream is started for a request: the queue is empty, the task
\* is created around ResearchAgent.research and has not run yet
StreamInit ==
    /\ impl = "agent"
    /\ callback = TRUE
    /\ num_sources = MinSources
    /\ output_format \in OutputFormats
    /\ language = <<>>
    /\ pc = "start"
    /\ results = <<>>
    /\ i = 0
    /\ extracted = <<>>
    /\ summaries = <<>>
    /\ source_num = 0
    /\ report = <<>>
    /\ events = <<>>
    /\ calls = <<>>
    /\ raised = <<>>
    /\ result = <<>>
    /\ cb_raised = FALSE
    /\ twin = <<>>
    /\ cpc = "check"
    /\ taken = 0
    /\ yielded = <<>>
    /\ tr_content = <<>>
    /\ tr_max_chars = 0
    /\ tr_result = <<>>
    /\ tr_parts = <<>>
    /\ fn_name = "none"
    /\ fn_args = <<>>
    /\ fn_ret = <<>>

\* `while not research_task.done()`
CheckDone ==
    /\ cpc = "check"
    /\ cpc' = IF TaskDone(pc) THEN "drain" ELSE "poll"
    /\ UNCHANGED <<request, twin, truncation, purecall, cb_raised, language, pc, results, i, extracted, summaries,
                   source_num, report, events, calls, raised, result, taken, yielded>>

\* wait_for(progress_queue.get(), 0.5) returns an event: yield it
PollGets ==
    /\ cpc = "poll"
    /\ ProgressQueue # <<>>
    /\ yielded' = Append(yielded, FormatSseEvent("progress", Head(ProgressQueue)))
    /\ taken' = taken + 1
    /\ cpc' = "check"
    /\ UNCHANGED <<request, twin, truncation, purecall, cb_raised, language, pc, results, i, extracted, summaries,
                   source_num, report, events, calls, raised, result>>

\* no event within 0.5 s: TimeoutError, continue
PollTimesOut ==
    /\ cpc = "poll"
    /\ ProgressQueue = <<>>
    /\ cpc' = "check"
    /\ UNCHANGED <<request, twin, truncation, purecall, cb_raised, language, pc, results, i, extracted, summaries,
                   source_num, report, events, calls, raised, result, taken, yielded>>

\* `while not progress_queue.empty()`: get the next event and yield it
DrainGets ==
    /\ cpc = "drain"
    /\ ~ QueueEmpty(ProgressQueue)
    /\ yielded' = Append(yielded, FormatSseEvent("progress", Head(ProgressQueue)))
    /\ taken' = taken + 1
    /\ UNCHANGED <<request, twin, truncation, purecall, cb_raised, language, pc, results, i, extracted, summaries,
                   source_num, report, events, calls, raised, result, cpc>>

\* the queue is empty: go on to `await research_task`
DrainDone ==
    /\ cpc = "drain"
    /\ QueueEmpty(ProgressQueue)
    /\ cpc' = "await"
    /\ UNCHANGED <<request, twin, truncation, purecall, cb_raised, language, pc, results, i, extracted, summaries,
                   source_num, report, events, calls, raised, result, taken, yielded>>

\* `result = await research_task` once the task is over: yield `complete`
\* with its result, or the `error` of the except clause that matches
AwaitTask ==
    /\ cpc = "await"
    /\ pc = "done"
    /\ yielded' = yielded \o
           (IF raised = <<>>
            THEN <<FormatSseEvent("complete", [result |-> result[1],
                                               format |-> output_format])>>
            ELSE ErrorEvents(raised[1]))
    /\ cpc' = "closed"
    /\ UNCHANGED <<request, twin, truncation, purecall, cb_raised, language, pc, results, i, extracted, summaries,
                   source_num, report, events, calls, raised, result, taken>>

\* the research task ends with an exception that is not a ResearchError
TaskRaisesUnexpected ==
    /\ pc \notin {"done"}
    /\ \E e \in UnexpectedErrors : raised' = <<e>>
    /\ pc' = "done"
    /\ UNCHANGED <<request, twin, consumer, truncation, purecall, cb_raised, language, results, i, extracted,
                   summaries, source_num, report, events, calls, result>>

\* the steps of ResearchAgent.research: its collaborators return, none of
\* them raises into it
AgentNext ==
    \/ Research
    \/ SearchReturns
    \/ FetchNext
    \/ ExtractReturns
    \/ SummarizeReturns
    \/ ProcessDone
    \/ GenerateReturns

StreamNext ==
    \/ AgentNext
    \/ TaskRaisesUnexpected
    \/ CheckDone
    \/ PollGets
    \/ PollTimesOut
    \/ DrainGets
    \/ DrainDone
    \/ AwaitTask

StreamSpec == StreamInit /\ [][StreamNext]_vars

\* the steps of the generator.  It is a coroutine of the asyncio event loop:
\* a coroutine that is ready to run is run, and wait_for() returns when an
\* event arrives or when its 0.5 s are over.
ConsumerNext ==
    \/ CheckDone
    \/ PollGets
    \/ PollTimesOut
    \/ DrainGets
    \/ DrainDone
    \/ AwaitTask

\* research_stream under that scheduling; nothing is assumed of the research
\* task, which waits on the network and may never finish
StreamFairSpec == StreamSpec /\ WF_vars(ConsumerNext)

\* ------------------------------------------------- reading the call log
Logged(op, kind) == {p \in 1..Len(calls) : calls[p].op = op /\ calls[p].kind = kind}

\* search() returned the empty list
SearchReturnedEmpty == \E p \in Logged("search", "return") : calls[p].val = <<>>

\* search() returned at least one hit
SearchReturnedHits == \E p \in Logged("search", "return") : calls[p].val # <<>>

ResultUrls == [k \in 1..Len(results) |-> results[k].url]

\* hit url survived: its extract() returned a document and the summarize()
\* that followed returned a text
Survived(u) ==
    \E p \in Logged("extract", "call") :
        /\ calls[p].val = <<u>>
        /\ p + 3 <= Len(calls)
        /\ calls[p + 1].kind = "return" /\ calls[p + 1].val # <<>>
        /\ calls[p + 3].op = "summarize"
        /\ calls[p + 3].kind = "return" /\ calls[p + 3].val \notin {<<>>, <<"">>}

Steps(evs) == {evs[k].step : k \in 1..Len(evs)}

\* ------------------------------------------------------------------ C1
\* C1: the k-th SourceSummary appended carries source_number = k, whatever
\* hits failed before it: the list is numbered 1..K without gaps or repeats.
C1_SequentialNumbers ==
    \A k \in 1..Len(summaries) : summaries[k].source_number = k

\* a later hit succeeded after an earlier one was dropped
C1_Witness ==
    /\ pc = "loop"
    /\ i = 3
    /\ Len(summaries) = 2
    /\ summaries[2].url = results[3].url

\* ------------------------------------------------------------------ C2
\* C2: with 1 <= M < N hits, a survivor and a report generator that returns
\* a report, research() returns a result, raises nothing, and hands at most
\* M summaries to the report generator.
C2_GracefulDegradation ==
    ( /\ pc = "done"
      /\ SearchReturnedHits
      /\ Len(results) < num_sources
      /\ summaries # <<>>
      /\ \A p \in Logged("generate", "return") : calls[p].val # <<>>
      /\ Logged("generate", "raise") = {} )
    => /\ raised = <<>>
       /\ result # <<>>
       /\ \A p \in Logged("generate", "call") : Len(calls[p].val[1]) <= Len(results)

\* ------------------------------------------------------------------ C3
\* C3: the summaries handed to the report generator are exactly the hits
\* whose extraction and summarization both succeeded, in search order, each
\* with the url of its own hit.
C3_SurvivorsInOrder ==
    \A p \in Logged("generate", "call") :
        LET passed == calls[p].val[1]
        IN [k \in 1..Len(passed) |-> passed[k].url] = SelectSeq(ResultUrls, Survived)

\* three hits, the middle one dropped, the other two handed on
C3_Witness ==
    /\ pc = "generate"
    /\ Len(results) = 3
    /\ ~ Survived(results[2].url)
    /\ Len(summaries) = 2
    /\ summaries[1].url = results[1].url
    /\ summaries[2].url = results[3].url

\* ------------------------------------------------------------------ C4
\* C4: an exception raised by extract() or summarize() for one source drops
\* that source only: it does not end the request and the remaining hits are
\* still processed.
C4_PerSourceRaiseRecovered ==
    \A p \in Logged("extract", "raise") \cup Logged("summarize", "raise") :
        /\ raised # <<calls[p].val>>
        /\ pc = "done" => i = Len(results)

\* ------------------------------------------------------------------ C5
\* C5: an empty search result ends the request with SearchFailedError, the
\* only event emitted is `searching`, and extract() is never called.
C5_EmptySearchFails ==
    SearchReturnedEmpty =>
        /\ pc = "done"
        /\ raised = <<SearchFailedError>>
        /\ result = <<>>
        /\ events = Emit(<<>>, ProgressEvent("searching", 0, 0, 0))
        /\ Logged("extract", "call") = {}

C5_Witness ==
    /\ SearchReturnedEmpty
    /\ callback
    /\ pc = "done"

\* ------------------------------------------------------------------ C6
\* C6: when search() raises, ResearchService.research terminates with
\* SearchFailedError, not with the provider's exception.
C6_SearchRaiseMapped ==
    Logged("search", "raise") # {} => raised = <<SearchFailedError>>

\* ------------------------------------------------------------------ C7
\* C7: when search returns M >= 1 hits and none of them survives, research()
\* raises NoSourcesFoundError after all M hits have been attempted.
C7_AllSourcesFail ==
    ( /\ pc = "done"
      /\ SearchReturnedHits
      /\ \A u \in Range(ResultUrls) : ~ Survived(u) )
    => /\ raised = <<NoSourcesFoundError>>
       /\ Cardinality(Logged("extract", "call")) = Len(results)

\* ------------------------------------------------------------------ C8
\* C8: when the report generator returns no report, research() raises
\* AIServiceError and emits neither `finalizing` nor `complete`.
C8_NoReportFails ==
    (\E p \in Logged("generate", "return") : calls[p].val = <<>>) =>
        /\ pc = "done"
        /\ summaries # <<>>
        /\ raised = <<AIServiceError>>
        /\ result = <<>>
        /\ Steps(events) \cap {"finalizing", "complete"} = {}

C8_Witness ==
    /\ \E p \in Logged("generate", "return") : calls[p].val = <<>>
    /\ impl = "service"
    /\ callback
    /\ "analyzing" \in Steps(events)

\* ------------------------------------------------------------------ C9
\* C9: when the report generator raises anything other than AIServiceError,
\* ResearchService.research terminates with AIServiceError.
C9_GenerateRaiseMapped ==
    \A p \in Logged("generate", "raise") :
        calls[p].val.type # "AIServiceError" =>
            /\ raised # <<>>
            /\ raised[1].type = "AIServiceError"

\* ------------------------------------------------------------------ C10
\* the full event sequence of a request with m hits, S the hits whose
\* extraction returned a document
RECURSIVE SourceEvents(_, _, _)
SourceEvents(k, m, S) ==
    IF k > m THEN <<>>
    ELSE <<ProgressEvent("fetching", k, m, 0)>>
         \o (IF k \in S THEN <<ProgressEvent("summarizing", k, m, 0)>> ELSE <<>>)
         \o SourceEvents(k + 1, m, S)

PipelineEvents(m, S) ==
    <<ProgressEvent("searching", 0, 0, 0), ProgressEvent("found", 0, 0, m)>>
    \o SourceEvents(1, m, S)
    \o <<ProgressEvent("analyzing", 0, 0, 0), ProgressEvent("finalizing", 0, 0, 0),
         ProgressEvent("complete", 0, 0, 0)>>

\* C10: the events emitted are always a prefix of searching, found, then per
\* hit in index order fetching(i) [summarizing(i)], then analyzing,
\* finalizing, complete.
C10_EventsArePipelinePrefix ==
    \E S \in SUBSET (1..Len(results)) :
        IsPrefix(events, PipelineEvents(Len(results), S))

\* ------------------------------------------------------------------ C11
\* C11: on every run of ResearchService.research in which the report
\* generator returned a report, `finalizing` is emitted after `analyzing` and
\* before `complete`, the formatter is called exactly once with that report,
\* and research() returns a result carrying the formatter's output.
C11_FinalizingAndFormat ==
    ( /\ impl = "service"
      /\ pc = "done"
      /\ \E p \in Logged("generate", "return") : calls[p].val # <<>> )
    => /\ callback =>
            \E a, f, c \in 1..Len(events) :
                /\ a < f /\ f < c
                /\ events[a].step = "analyzing"
                /\ events[f].step = "finalizing"
                /\ events[c].step = "complete"
       /\ Cardinality(Logged("format", "call")) = 1
       /\ \A p \in Logged("format", "call") : calls[p].val[1] = report
       /\ raised = <<>>
       /\ result # <<>>
       /\ \A k \in 1..Len(result) : result[k].formatted = report

\* ------------------------------------------------------------------ C12
\* C12: a run whose callback raised on some of its invocations and a run of
\* the same request, against the same collaborator behaviour, whose callback
\* never raises make the same calls, attempt the same emissions, and end
\* with the same result or the same exception.
C12_CallbackNeverChangesOutcome ==
    twin # <<>> =>
        /\ IsPrefix(calls, twin[1].calls)
        /\ IsPrefix(events, twin[1].events)
        /\ pc = "done" =>
              /\ calls = twin[1].calls
              /\ events = twin[1].events
              /\ raised = twin[1].raised
              /\ result = twin[1].result

\* both runs of a request returned a result, after a callback that raised
C12_Witness ==
    /\ twin # <<>>
    /\ pc = "done"
    /\ result # <<>>
    /\ "complete" \in Steps(events)

\* both runs ended with the same pipeline error, after a callback that raised
C12_WitnessError ==
    /\ twin # <<>>
    /\ pc = "done"
    /\ impl = "service"
    /\ raised # <<>>
    /\ Len(events) >= 4

\* ------------------------------------------------------------------ C13
\* the progress events research_stream has yielded, in order
ProgressYielded ==
    LET prog == SelectSeq(yielded, LAMBDA y : y.event = "progress")
    IN [k \in 1..Len(prog) |-> prog[k].data]

Terminals == {k \in 1..Len(yielded) : yielded[k].event \in {"complete", "error"}}

\* C13: in every interleaving of the research task and research_stream, the
\* progress events yielded are the events the task put on the queue, each
\* once and in the order put, and all of them have been yielded before the
\* terminal event is.
C13_NoEventLost ==
    /\ IsPrefix(ProgressYielded, events)
    /\ Terminals # {} => ProgressYielded = events

\* the task finished while events were still queued: some were yielded by
\* the polling loop, the rest is left to the drain loop
C13_Witness ==
    /\ cpc = "drain"
    /\ pc = "done"
    /\ taken >= 1
    /\ Len(ProgressQueue) >= 2

C14_Witness ==
    /\ cpc = "closed"
    /\ raised = <<>>
    /\ Len(yielded) >= 7
    /\ yielded[Len(yielded)].event = "complete"

SafeMessages ==
    {SearchFailedMessage, NoSourcesFoundMessage, AIServiceMessage, UnexpectedMessage}

\* C15: the message of every `error` event is one of the four fixed
\* strings, and for an exception that is not a ResearchError it is the
\* generic one, never the exception's own text.
C15_ErrorMessageSafe ==
    \A k \in 1..Len(yielded) :
        yielded[k].event = "error" =>
            /\ yielded[k].data.message \in SafeMessages
            /\ raised[1].type \notin ResearchErrorTypes =>
                  yielded[k].data.message = UnexpectedMessage

\* an unclassified exception ended the task and the generic message went out
C15_Witness ==
    /\ cpc = "closed"
    /\ raised \in {<<e>> : e \in UnexpectedErrors}
    /\ yielded[Len(yielded)] = FormatSseEvent("error", [message |-> UnexpectedMessage])

\* a ResearchError ended the task and its message went out
C15_WitnessResearchError ==
    /\ cpc = "closed"
    /\ raised = <<NoSourcesFoundError>>
    /\ yielded[Len(yielded)] = FormatSseEvent("error", [message |-> NoSourcesFoundMessage])

\* ------------------------------------------------------------------ C16
\* C16: a FinalReport returned for K summaries has exactly K citations,
\* citation k (counting from 1) has number k and the title and url of
\* summary k.
C16_CitationsCopySummaries ==
    \A p \in Logged("generate", "return") :
        calls[p].val # <<>> =>
            LET passed == calls[p - 1].val[1]
                cited == calls[p].val[1].citations
            IN /\ Len(cited) = Len(passed)
               /\ \A k \in 1..Len(cited) :
                    /\ cited[k].number = k
                    /\ cited[k].title = passed[k].title
                    /\ cited[k].url = passed[k].url

\* a report for three summaries of pages with different titles
C16_Witness ==
    /\ report # <<>>
    /\ Len(report[1].citations) = 3
    /\ report[1].citations[1].title # report[1].citations[2].title
    /\ report[1].citations[3].url = summaries[3].url

\* ------------------------------------------------------------------ C17
\* C17: a text no longer than a positive max_chars comes back from
\* truncate / smart_truncate unchanged.
C17_NoOpWithinLimit ==
    (tr_result # <<>> /\ tr_max_chars > 0 /\ Len(tr_content) <= tr_max_chars)
    => tr_result[1] = tr_content

\* a padded text of several paragraphs, exactly max_chars long, came back
C17_Witness ==
    /\ tr_result # <<>>
    /\ Len(tr_parts) >= 2
    /\ Len(tr_content) = tr_max_chars
    /\ tr_content[Len(tr_content)] = " "

\* ------------------------------------------------------------------ C18
\* the smallest max_chars the length bound is stated for
MinBoundedBudget == 200

\* C18: for max_chars >= 200 the text returned by truncate / smart_truncate
\* is at most max_chars characters long.
C18_LengthBound ==
    (tr_result # <<>> /\ tr_max_chars >= MinBoundedBudget)
    => Len(tr_result[1]) <= tr_max_chars

\* ------------------------------------------------------------------ C19
IsSuffix(s, t) ==
    Len(s) <= Len(t) /\ SubSeq(t, Len(t) - Len(s) + 1, Len(t)) = s

\* what the implementation counts for the separator between first and last
\* when it decides whether both fit
SeparatorAllowance == IF impl = "service" THEN Len(Separator) ELSE LegacySeparatorLen

\* C19: when the text is longer than max_chars, has at least two non-empty
\* paragraphs, and first + last + separator fit into max_chars, the text
\* returned begins with the trimmed first paragraph and ends with the
\* trimmed last paragraph.
C19_BothEndsVerbatim ==
    ( /\ tr_result # <<>>
      /\ Len(tr_parts) >= 2
      /\ Len(tr_content) > tr_max_chars
      /\ Len(tr_parts[1]) + Len(tr_parts[Len(tr_parts)]) + SeparatorAllowance <= tr_max_chars )
    => /\ IsPrefix(tr_parts[1], tr_result[1])
       /\ IsSuffix(tr_parts[Len(tr_parts)], tr_result[1])

\* padded paragraphs, the middle one left out, both ends kept
C19_Witness ==
    /\ tr_result # <<>>
    /\ impl = "service"
    /\ Len(tr_parts) = 3
    /\ Len(tr_content) > tr_max_chars
    /\ tr_content[Len(tr_content)] = " "
    /\ tr_result[1] = PyJoin(Separator, <<tr_parts[1], TruncationEllipsis, tr_parts[3]>>)

\* ------------------------------------------------------------------ C20
IsSubstring(s, t) ==
    \E k \in 0..(Len(t) - Len(s)) : SubSeq(t, k + 1, k + Len(s)) = s

\* the room the claim leaves beside the last paragraph
ConclusionMargin == 200

\* C20: when the text has at least three non-empty paragraphs, is longer
\* than max_chars, and max_chars >= len(last) + 200, the last paragraph is
\* found verbatim in the text returned.
C20_ConclusionVerbatim ==
    ( /\ tr_result # <<>>
      /\ Len(tr_parts) >= 3
      /\ Len(tr_content) > tr_max_chars
      /\ tr_max_chars >= Len(tr_parts[Len(tr_parts)]) + ConclusionMargin )
    => IsSubstring(tr_parts[Len(tr_parts)], tr_result[1])

\* ------------------------------------------------------------------ C21
\* the room the claim leaves beside the first paragraph
IntroMargin == 200

\* C21: when the text has at least three non-empty paragraphs, is longer
\* than max_chars, and max_chars >= len(first) + 200, the first paragraph is
\* found verbatim in the text returned.
C21_IntroVerbatim ==
    ( /\ tr_result # <<>>
      /\ Len(tr_parts) >= 3
      /\ Len(tr_content) > tr_max_chars
      /\ tr_max_chars >= Len(tr_parts[1]) + IntroMargin )
    => IsSubstring(tr_parts[1], tr_result[1])

\* narrow budget: first and last do not both fit, the first is kept whole
C21_Witness ==
    /\ tr_result # <<>>
    /\ Len(tr_parts) = 3
    /\ Len(tr_content) > tr_max_chars
    /\ tr_max_chars >= Len(tr_parts[1]) + IntroMargin
    /\ Len(tr_parts[1]) + Len(tr_parts[3]) + Len(Separator) > tr_max_chars
    /\ IsPrefix(tr_parts[1], tr_result[1])

\* ------------------------------------------------------------------ C22
\* what is left of max_chars after the first paragraph, the two separators
\* and the marker
RemainingAfterIntro ==
    tr_max_chars - Len(tr_parts[1]) - 2 * Len(Separator) - Len(TruncationEllipsis)

MinTruncatedConclusion == 20

IntroThenMarker == tr_parts[1] \o Separator \o TruncationEllipsis \o Separator

\* C22: in TrafilaturaExtractor.truncate, when first and last do not both
\* fit in max_chars but at least 20 characters remain after the first
\* paragraph, the separators and the marker, the text returned is the first
\* paragraph, a blank line, '[...]', a blank line and then the truncated
\* beginning of the last paragraph.
C22_NarrowBudgetKeepsConclusion ==
    ( /\ impl = "service"
      /\ tr_result # <<>>
      /\ Len(tr_parts) >= 2
      /\ Len(tr_content) > tr_max_chars
      /\ Len(tr_parts[1]) + Len(tr_parts[Len(tr_parts)]) + Len(Separator) > tr_max_chars
      /\ RemainingAfterIntro >= MinTruncatedConclusion )
    => /\ IsPrefix(IntroThenMarker, tr_result[1])
       /\ Len(tr_result[1]) > Len(IntroThenMarker)
       /\ Len(tr_result[1]) <= Len(IntroThenMarker) + RemainingAfterIntro

\* ------------------------------------------------------------------ C23
SearchCalls == Logged("search", "call")

\* C23: a request calls search at most once, once it has started exactly
\* once, and with the topic and the num_sources it was given: hits that are
\* missing or fail are never made up for by a second search.
C23_OneSearchCall ==
    /\ Cardinality(SearchCalls) <= 1
    /\ pc # "start" => Cardinality(SearchCalls) = 1
    /\ \A p \in SearchCalls : calls[p].val = <<Topic, num_sources>>

\* a request that ended with fewer sources than it asked for
C23_Witness ==
    /\ pc = "done"
    /\ result # <<>>
    /\ Len(summaries) < num_sources
    /\ Cardinality(SearchCalls) = 1
    /\ \E p \in Logged("extract", "return") : calls[p].val = <<>>

\* ------------------------------------------------------------------ C24
Requested == fn_name = "ResearchRequest" /\ fn_ret # <<>>

\* the topic has 1..500 characters, one of them not a whitespace character
TopicAcceptable(t) ==
    /\ t # <<>>
    /\ t[1].type = "str"
    /\ Len(t[1].val) \in 1..500
    /\ \E k \in 1..Len(t[1].val) : t[1].val[k] \notin Whitespace

SourceCountAcceptable(n) == n = <<>> \/ (n[1].type = "int" /\ n[1].val \in 3..10)

OutputFormatAcceptable(f) == f = <<>> \/ f[1] \in {PyStr("json"), PyStr("markdown")}

\* C24: a ResearchRequest is accepted exactly when its topic has 1..500
\* characters and is not whitespace-only, num_sources (5 when omitted) is an
\* integer in 3..10 and output_format ('markdown' when omitted) is 'json' or
\* 'markdown'; anything else is a validation error.
C24_RequestValidation ==
    Requested =>
        /\ fn_ret[1].raised \in {"", "ValidationError"}
        /\ fn_ret[1].raised = ""
             <=> /\ TopicAcceptable(fn_args.topic)
                 /\ SourceCountAcceptable(fn_args.num_sources)
                 /\ OutputFormatAcceptable(fn_args.output_format)
        /\ fn_ret[1].raised = "" =>
             /\ fn_ret[1].topic = fn_args.topic[1].val
             /\ fn_ret[1].num_sources
                  = IF fn_args.num_sources = <<>> THEN 5 ELSE fn_args.num_sources[1].val
             /\ fn_ret[1].output_format
                  = IF fn_args.output_format = <<>> THEN "markdown"
                    ELSE fn_args.output_format[1].val

\* accepted with both defaults, the topic of the greatest length
C24_Witness ==
    /\ Requested
    /\ fn_ret[1].raised = ""
    /\ Len(fn_ret[1].topic) = 500
    /\ fn_args.num_sources = <<>> /\ fn_ret[1].num_sources = 5
    /\ fn_args.output_format = <<>> /\ fn_ret[1].output_format = "markdown"

\* rejected for a whitespace-only topic alone
C24_WitnessBlank ==
    /\ Requested
    /\ fn_ret[1].raised = "ValidationError"
    /\ fn_ret[1].fields = {"topic"}
    /\ fn_args.topic # <<>> /\ fn_args.topic[1].type = "str"
    /\ Len(fn_args.topic[1].val) = 2

\* ------------------------------------------------------------------ C25
Detected == fn_name = "detect" /\ fn_ret # <<>>

Blank(text) == \A k \in 1..Len(text) : text[k] \in Whitespace

\* C25: detect never raises and returns 'en' or 'fa' whatever the text and
\* whatever the library answers: 'en' for an empty or whitespace-only text,
\* 'fa' for a detected 'ar' or 'ur', 'en' for any other unsupported code
\* and when the library fails to detect.
C25_DetectTotal ==
    Detected =>
        /\ fn_ret[1].raised = ""
        /\ fn_ret[1].value \in {"en", "fa"}
        /\ Blank(fn_args.text) => fn_ret[1].value = "en"
        /\ ~ Blank(fn_args.text) =>
             /\ fn_args.outcome.code \in {"en", "fa"} => fn_ret[1].value = fn_args.outcome.code
             /\ fn_args.outcome.code \in {"ar", "ur"} => fn_ret[1].value = "fa"
             /\ fn_args.outcome.code \notin {"en", "fa", "ar", "ur"} => fn_ret[1].value = "en"

\* a text the library takes for Arabic
C25_Witness ==
    /\ Detected
    /\ ~ Blank(fn_args.text)
    /\ fn_args.outcome.code = "ar"
    /\ fn_ret[1] = [raised |-> "", value |-> "fa"]

\* ------------------------------------------------------------------ C26
Formatted == fn_name = "format" /\ fn_ret # <<>>

IsHeader(line, title) == line.kind = "header" /\ line.body = title

\* the lines of the given kind between two positions, in order
LinesOfKind(lines, from, to, kind) ==
    SelectSeq(SubSeq(lines, from + 1, to - 1), LAMBDA l : l.kind = kind)

\* C26: the Markdown of a report in 'en' or 'fa' has the headers
\* '# Summary', '# Key Points', '# Comparison', '# Citations' in this order,
\* one '- ' bullet per key point under Key Points and one '[N] Title - URL'
\* line per citation under Citations.
C26_MarkdownLayout ==
    (Formatted /\ fn_args.language \in {"en", "fa"}) =>
        LET lines == fn_ret[1]
        IN \E a, b, c, d \in 1..Len(lines) :
              /\ a < b /\ b < c /\ c < d
              /\ IsHeader(lines[a], "Summary")
              /\ IsHeader(lines[b], "Key Points")
              /\ IsHeader(lines[c], "Comparison")
              /\ IsHeader(lines[d], "Citations")
              /\ LinesOfKind(lines, b, c, "bullet")
                   = [k \in 1..Len(fn_args.key_points) |-> BulletLine(fn_args.key_points[k])]
              /\ LinesOfKind(lines, d, Len(lines) + 1, "citation")
                   = [k \in 1..Len(fn_args.citations) |-> CitationLine(fn_args.citations[k])]

\* ------------------------------------------------------------------ C27
\* the text was cut and its first and last paragraph both fit
BothEndsFit ==
    /\ tr_result # <<>>
    /\ Len(tr_parts) >= 2
    /\ Len(tr_content) > tr_max_chars
    /\ Len(tr_parts[1]) + Len(tr_parts[Len(tr_parts)]) + SeparatorAllowance <= tr_max_chars

MiddleParagraphs == SubSeq(tr_parts, 2, Len(tr_parts) - 1)

\* the room for middle paragraphs and what one of them costs beside its
\* length, as each implementation counts them
MiddleRoom ==
    tr_max_chars - Len(tr_parts[1]) - Len(tr_parts[Len(tr_parts)])
    - (IF impl = "service" THEN 11 ELSE 15)

SeparatorCost == IF impl = "service" THEN 2 ELSE 4

RECURSIVE CostOf(_)
CostOf(paras) ==
    IF paras = <<>> THEN 0 ELSE Len(paras[1]) + SeparatorCost + CostOf(Tail(paras))

\* first paragraph, the first k middle paragraphs, the marker or not, last
Assembled(k, marked) ==
    PyJoin(Separator,
           <<tr_parts[1]>> \o SubSeq(MiddleParagraphs, 1, k)
           \o (IF marked THEN <<TruncationEllipsis>> ELSE <<>>)
           \o <<tr_parts[Len(tr_parts)]>>)

\* C27: when both ends fit, the middle paragraphs in the text returned are
\* the first k of them, whole and in order, where paragraph k + 1 is the
\* first that does not fit: no paragraph after it is included, however
\* short.
C27_MiddleIsPrefix ==
    BothEndsFit =>
        \E k \in 0..Len(MiddleParagraphs) :
            /\ \E marked \in BOOLEAN : tr_result[1] = Assembled(k, marked)
            /\ k > 0 => CostOf(SubSeq(MiddleParagraphs, 1, k)) <= MiddleRoom
            /\ k < Len(MiddleParagraphs)
                 => CostOf(SubSeq(MiddleParagraphs, 1, k + 1)) > MiddleRoom

\* the first middle paragraph does not fit and the shorter one after it
\* would have
C27_Witness ==
    /\ BothEndsFit
    /\ Len(MiddleParagraphs) = 2
    /\ CostOf(<<MiddleParagraphs[1]>>) > MiddleRoom
    /\ CostOf(<<MiddleParagraphs[2]>>) <= MiddleRoom
    /\ tr_result[1] = Assembled(0, TRUE)

\* ------------------------------------------------------------------ C28
\* C28: when both ends fit, the text returned has the marker '[...]', right
\* before the last paragraph, exactly when a middle paragraph was left
\* out: there is none for a text of two paragraphs or when every middle
\* paragraph is included.
C28_MarkerIffOmitted ==
    BothEndsFit =>
        \E k \in 0..Len(MiddleParagraphs) :
            tr_result[1] = Assembled(k, k < Len(MiddleParagraphs))

\* a text that was cut although every middle paragraph is kept
C28_Witness ==
    /\ BothEndsFit
    /\ Len(MiddleParagraphs) >= 1
    /\ tr_result[1] = Assembled(Len(MiddleParagraphs), FALSE)

\* a text of two paragraphs that was cut
C28_WitnessTwo ==
    /\ BothEndsFit
    /\ Len(tr_parts) = 2
    /\ tr_result[1] = Assembled(0, FALSE)

\* ------------------------------------------------------------------ C29
\* the text was longer than max_chars and has been cut
WasCut ==
    /\ fn_name = "truncate_at_word_boundary"
    /\ fn_ret # <<>>
    /\ Len(fn_args.text) > fn_args.max_chars

\* max_chars - len(suffix)
CutLimit == fn_args.max_chars - Len(fn_args.suffix)

\* the 0-based indices up to `last` where the text has one of `chars`
IndicesOf(chars, last) ==
    {k \in 0..Min(last, Len(fn_args.text) - 1) : fn_args.text[k + 1] \in chars}

Greatest(S) == CHOOSE k \in S : \A j \in S : j <= k

\* C29 as stated: a text longer than max_chars is cut at the last
\* whitespace character at or before index max_chars - len(suffix), or at
\* that index when there is none, and the suffix is appended. Stated for
\* max_chars >= len(suffix).
C29_CutAtLastWhitespace ==
    (WasCut /\ CutLimit >= 0) =>
        LET found == IndicesOf(Whitespace, CutLimit)
            cut == IF found = {} THEN CutLimit ELSE Greatest(found)
        IN fn_ret[1] = SubSeq(fn_args.text, 1, cut) \o fn_args.suffix

\* C29 amended: a text longer than max_chars is cut at the last space
\* character ' ' before index max_chars - len(suffix), that is among
\* text[0 : max_chars - len(suffix)], or at text[: max_chars - len(suffix)]
\* when there is none, and the suffix is appended.
C29_CutAtLastSpaceBefore ==
    WasCut =>
        LET head == PySlice(fn_args.text, 0, CutLimit)
            found == {k \in 1..Len(head) : head[k] = " "}
        IN fn_ret[1] = (IF found = {} THEN head
                        ELSE SubSeq(fn_args.text, 1, Greatest(found) - 1))
                       \o fn_args.suffix

\* the character at index max_chars - len(suffix) is a space and there is
\* an earlier one: the cut is at the earlier one
C29_Witness ==
    /\ WasCut
    /\ CutLimit >= 1
    /\ fn_args.text[CutLimit + 1] = " "
    /\ IndicesOf({" "}, CutLimit - 1) # {}
    /\ Len(fn_ret[1]) < fn_args.max_chars
    /\ fn_ret[1] = SubSeq(fn_args.text, 1, Greatest(IndicesOf({" "}, CutLimit - 1)))
                    \o fn_args.suffix

\* ------------------------------------------------------------------ C30
\* the service cut the text by word-boundary truncation alone: the text is
\* a single paragraph, or its first and last paragraph do not both fit
FellBack ==
    /\ impl = "service"
    /\ tr_result # <<>>
    /\ tr_max_chars > 0
    /\ Len(tr_content) > tr_max_chars
    /\ \/ Len(tr_parts) <= 1
       \/ Len(tr_parts[1]) + Len(tr_parts[Len(tr_parts)]) + Len(Separator) > tr_max_chars

\* C30: when truncate falls back to word-boundary truncation of a single
\* paragraph or of the first paragraph alone, the text returned is no
\* longer than max_chars, for every positive max_chars, those smaller than
\* the suffix '...' included.
C30_FallbackWithinLimit == FellBack => Len(tr_result[1]) <= tr_max_chars

\* ------------------------------------------------------------------ C31
EventsOf(step) == SelectSeq(events, LAMBDA e : e.step = step)

\* the hits search() returned, <<>> while it has not returned
HitsReturned ==
    IF Logged("search", "return") = {} THEN <<>>
    ELSE calls[CHOOSE p \in Logged("search", "return") : TRUE].val

\* the enumerate index of the hit being handled when event p was emitted:
\* the number of extract() calls made up to the call that follows
\* `fetching`, that is the number of `fetching` events up to p
HitIndexAt(p) == Len(SelectSeq(SubSeq(events, 1, p), LAMBDA e : e.step = "fetching"))

\* C31: for M returned hits the `found` event carries count = M, and every
\* `fetching` and `summarizing` event carries total = M and current = the
\* 1-based index of the hit it concerns among the hits returned.
C31_EventCounters ==
    /\ \A p \in 1..Len(events) :
         /\ events[p].step = "found" => events[p].count = Len(HitsReturned)
         /\ events[p].step \in {"fetching", "summarizing"} =>
              /\ events[p].total = Len(HitsReturned)
              /\ events[p].current = HitIndexAt(p)
              /\ events[p].current \in 1..Len(HitsReturned)
    /\ callback =>
         /\ Len(EventsOf("fetching")) = Cardinality(Logged("extract", "call"))
         /\ \A k \in 1..Len(EventsOf("fetching")) :
              \E p \in Logged("extract", "call") :
                 /\ Cardinality({q \in Logged("extract", "call") : q <= p}) = k
                 /\ calls[p].val = <<HitsReturned[EventsOf("fetching")[k].current].url>>

\* a `summarizing` event for the third hit when no source has succeeded yet
C31_Witness ==
    /\ callback
    /\ Len(HitsReturned) = 3
    /\ source_num = 0
    /\ pc = "summarize"
    /\ events[Len(events)] = ProgressEvent("summarizing", 3, 3, 0)

\* ------------------------------------------------------------------ C32
\* positions in the trace of the events of one step about hit k
EventsAbout(step, k) ==
    {p \in 1..Len(events) : events[p].step = step /\ events[p].current = k}

\* position in the log of the k-th call of extract()
ExtractCallAt(k) ==
    CHOOSE p \in Logged("extract", "call") :
        Cardinality({q \in Logged("extract", "call") : q <= p}) = k

\* extract() was called for hit k and came back with a document
ExtractedDocument(k) ==
    /\ k <= Cardinality(Logged("extract", "call"))
    /\ ExtractCallAt(k) < Len(calls)
    /\ calls[ExtractCallAt(k) + 1].kind = "return"
    /\ calls[ExtractCallAt(k) + 1].val # <<>>

\* C32: each hit gets exactly one `fetching` event, emitted before its
\* extraction; `summarizing`(k) is emitted iff extract() returned a document
\* for hit k, after `fetching`(k) and before `fetching`(k+1); when the
\* request is over there are as many `fetching` events as hits and as many
\* `summarizing` events as successful extractions.
C32_PerHitEvents ==
    callback =>
        /\ \A k \in 1..Len(HitsReturned) :
             /\ Cardinality(EventsAbout("fetching", k)) =
                   (IF k <= Cardinality(Logged("extract", "call")) THEN 1 ELSE 0)
             /\ Cardinality(EventsAbout("summarizing", k)) =
                   (IF ExtractedDocument(k) THEN 1 ELSE 0)
             /\ \A p \in EventsAbout("summarizing", k) :
                  /\ \A q \in EventsAbout("fetching", k) : q < p
                  /\ \A q \in EventsAbout("fetching", k + 1) : p < q
        /\ (pc = "done" /\ HitsReturned # <<>>) =>
             /\ Len(EventsOf("fetching")) = Len(HitsReturned)
             /\ Len(EventsOf("summarizing")) =
                   Cardinality({k \in 1..Len(HitsReturned) : ExtractedDocument(k)})

\* ------------------------------------------------------------------ C33
\* the calls that leave the process
ExternalOps == {"search", "extract", "summarize", "generate"}

\* log positions of the calls of the external collaborators, of their ends
ExternalCalls == {p \in 1..Len(calls) : calls[p].op \in ExternalOps /\ calls[p].kind = "call"}

ExternalEnds ==
    {p \in 1..Len(calls) : calls[p].op \in ExternalOps /\ calls[p].kind \in {"return", "raise"}}

InFlight == Cardinality(ExternalCalls) - Cardinality(ExternalEnds)

\* the calls of extract() for the k-th hit
ExtractCallsFor(k) ==
    {p \in Logged("extract", "call") : calls[p].val = <<HitsReturned[k].url>>}

\* C33: at most one external call is in flight and the next one starts
\* after it has ended; extract() is called exactly once for every hit the
\* loop has reached and not yet for the others, in index order; and the
\* call for hit k+1 directly follows the end of the handling of hit k
\* (extract() returned no document, or summarize() returned).
C33_StrictlySequential ==
    /\ InFlight \in {0, 1}
    /\ \A p \in ExternalCalls :
         p < Len(calls) => /\ calls[p + 1].op = calls[p].op
                           /\ calls[p + 1].kind \in {"return", "raise"}
    /\ \A k \in 1..Len(HitsReturned) :
         Cardinality(ExtractCallsFor(k)) = (IF k <= i THEN 1 ELSE 0)
    /\ \A k \in 1..Cardinality(Logged("extract", "call")) :
         /\ ExtractCallAt(k) \in ExtractCallsFor(k)
         /\ calls[ExtractCallAt(k) - 1].kind = "return"
         /\ calls[ExtractCallAt(k) - 1].op =
               (IF k = 1 THEN "search"
                ELSE IF ExtractedDocument(k - 1) THEN "summarize" ELSE "extract")

\* three hits handled one after the other: the first summarized, the second
\* dropped at extraction, the third dropped at summarization
C33_Witness ==
    /\ pc = "loop"
    /\ i = 3
    /\ Len(HitsReturned) = 3
    /\ ExtractedDocument(1)
    /\ ~ ExtractedDocument(2)
    /\ ExtractedDocument(3)
    /\ Len(summaries) = 1
    /\ InFlight = 0

\* ------------------------------------------------------------------ C34
\* the document extract() returned just before the call of summarize() at p
DocumentBefore(p) == calls[p - 1].val[1]

\* C34: the language is detected once, from the raw topic; every call of
\* summarize() gets the truncated content and the title of the document just
\* extracted together with that language, and the call of generate() gets
\* the original topic and that same language.
C34_LanguageAndArgsKept ==
    /\ Cardinality(Logged("detect", "call")) <= 1
    /\ \A p \in Logged("detect", "call") : calls[p].val = <<Topic>>
    /\ \A p \in Logged("summarize", "call") :
         /\ calls[p - 1].op = "extract" /\ calls[p - 1].kind = "return"
         /\ calls[p].val[1] = ExtractorTruncate(DocumentBefore(p).content)
         /\ calls[p].val[2] = DocumentBefore(p).title
         /\ calls[p].val[3] = language[1]
    /\ \A p \in Logged("generate", "call") :
         /\ calls[p].val[2] = Topic
         /\ calls[p].val[3] = language[1]

\* a Persian request whose second document is longer than the limit: both
\* calls of summarize() and the call of generate() have been made
C34_Witness ==
    /\ language = <<"fa">>
    /\ Cardinality(Logged("summarize", "call")) = 2
    /\ Logged("generate", "call") # {}
    /\ \E p \in Logged("summarize", "call") :
         /\ Len(DocumentBefore(p).content) > MaxContentChars
         /\ calls[p].val[1] # DocumentBefore(p).content

\* ------------------------------------------------------------------ C35
\* research_stream is over: the queue has been emptied and the terminal
\* event is the last one yielded
StreamEnded ==
    /\ cpc = "closed"
    /\ taken = Len(events)
    /\ Terminals = {Len(yielded)}

\* C35: once the research task has finished (returned or raised), the
\* generator leaves the polling loop, empties the queue, yields the
\* terminal event and ends.
C35_StreamEnds == (pc = "done") ~> StreamEnded

\* the task finished while the generator was polling with events queued,
\* and the stream has ended after draining them
C35_Witness ==
    /\ StreamEnded
    /\ pc = "done"
    /\ Len(yielded) = Len(events) + 1
    /\ Len(events) >= 3

\* ------------------------------------------------------------------ C36
Generated == fn_name = "generate" /\ fn_ret # <<>>

\* the LLM gave nothing for a section: the chain raised, or its answer is
\* empty or white space only
NothingAnswered(answer) ==
    \/ answer = <<>>
    \/ \A k \in 1..Len(answer[1]) : answer[1][k] \in Whitespace

\* C36: a report returned by the generator has a non-empty summary, at
\* least one key point, a non-empty comparison and one citation per summary
\* given (at least one); no report is returned for an empty summary list or
\* when one of the three sections came out empty.
C36_ReportComplete ==
    Generated =>
        LET rep == fn_ret[1]
        IN /\ rep # <<>> =>
                /\ rep[1].summary # <<>>
                /\ Len(rep[1].key_points) >= 1
                /\ rep[1].comparison # <<>>
                /\ Len(rep[1].citations) = Len(fn_args.summaries)
                /\ Len(rep[1].citations) >= 1
           /\ fn_args.summaries = <<>> => rep = <<>>
           /\ ( \/ NothingAnswered(fn_args.llm.summary)
                \/ NothingAnswered(fn_args.llm.key_points)
                \/ NothingAnswered(fn_args.llm.comparison) ) => rep = <<>>

\* a report of two key points, one of them from a numbered line
C36_Witness ==
    /\ Generated
    /\ fn_ret[1] # <<>>
    /\ Len(fn_ret[1][1].key_points) = 2
    /\ Len(fn_ret[1][1].citations) = 2

\* no report because the comparison alone came out empty
C36_WitnessPartial ==
    /\ Generated
    /\ fn_ret[1] = <<>>
    /\ fn_args.summaries # <<>>
    /\ ~ NothingAnswered(fn_args.llm.summary)
    /\ ExtractKeyPoints(fn_args.llm.key_points) # <<>>
    /\ fn_args.llm.comparison = <<<<" ">>>>

\* ------------------------------------------------------------------ C37
Emitted(step) == \E p \in 1..Len(events) : events[p].step = step

\* C37: `complete` is emitted iff research() returns a result, and is then
\* the last event; once research() has ended with SearchFailedError,
\* NoSourcesFoundError or AIServiceError nothing of a later stage has
\* happened: no extract() call after a failed search, no generate() call
\* and no `analyzing` for zero summaries, no format() call, `finalizing` or
\* `complete` after a failed report.
C37_OutcomeMatchesTrace ==
    /\ callback => (Emitted("complete") <=> result # <<>>)
    /\ Emitted("complete") => events[Len(events)].step = "complete"
    /\ raised = <<SearchFailedError>> =>
         /\ pc = "done"
         /\ Logged("extract", "call") = {}
         /\ ~ Emitted("found") /\ ~ Emitted("fetching")
    /\ raised = <<NoSourcesFoundError>> =>
         /\ pc = "done"
         /\ Logged("generate", "call") = {}
         /\ ~ Emitted("analyzing")
         /\ callback => events[Len(events)].step \in {"fetching", "summarizing"}
    /\ raised = <<AIServiceError>> =>
         /\ pc = "done"
         /\ Logged("format", "call") = {}
         /\ ~ Emitted("finalizing") /\ ~ Emitted("complete")
         /\ callback /\ Logged("generate", "call") # {}
               => events[Len(events)].step = "analyzing"

\* ------------------------------------------------------------------ C38
\* C38: for every content and every max_chars, TrafilaturaExtractor.truncate
\* and ContentExtractor.smart_truncate return the same string.
C38_TruncationsAgree ==
    tr_result # <<>> =>
        Truncate(tr_content, tr_max_chars, MaxContentChars)
            = SmartTruncate(tr_content, tr_max_chars)

====
